---- MODULE Spec2Model ----
(***************************************************************************)
(* Model of src/main.py: the password bot's capture conversation           *)
(* (button_handler, handle_text_messages), the two sqlite tables it writes *)
(* (password_manager, password_history) and the per-user dictionaries.     *)
(*                                                                         *)
(* One action models one handler invocation, from the update's arrival to  *)
(* the handler's return or to the exception that ends it.  A Telegram call *)
(* (reply_text, edit_message_text) may raise; the parameter `sent` is its  *)
(* outcome, and everything the handler does after a raising call is        *)
(* skipped, as in the code.  A database call may raise inside the store    *)
(* function, which catches it; the parameter `dbOk` is its outcome.        *)
(* A button press whose first call, query.answer(), raises changes nothing *)
(* and is the stuttering step.                                             *)
(***************************************************************************)
EXTENDS Integers, Sequences, FiniteSets, TLC

VARIABLES
    ENABLE_STORAGE,         \* main.py:39, fixed for the life of the process
    user_data,              \* context.user_data of each user (a dict per user)
    password_manager,       \* rows of table password_manager, in insertion order
    manager_seq,            \* sqlite AUTOINCREMENT counter of password_manager
    password_history,       \* rows of table password_history, in insertion order
    history_seq,            \* sqlite AUTOINCREMENT counter of password_history
    user_password_history,  \* main.py:35, the in-memory history of each user
    user_settings,          \* main.py:33, the generation settings of each user
    clock,                  \* CURRENT_TIMESTAMP of the database
    out,                    \* the update just handled and what the handler answered
    capture                 \* history variable: what each user supplied since the
                            \* capture in progress was started

vars == <<ENABLE_STORAGE, user_data, password_manager, manager_seq,
          password_history, history_seq, user_password_history, user_settings,
          clock, out, capture>>

dbVars == <<password_manager, manager_seq, password_history, history_seq>>
memVars == <<user_password_history, user_settings>>

-----------------------------------------------------------------------------
(* Bounds of the model *)

\* rows the table password_manager may hold
MaxVault == 1
\* rows the table password_history may hold
MaxHistory == 1

\* the users of the bot (Telegram user ids)
Owners == {1, 2}

-----------------------------------------------------------------------------
(* Text.  A string is a sequence of runs <<character, count>>, so that the  *)
(* strings at the validation limits stay small values; <<>> is "".          *)

IsSpace(c) == c \in {" ", "\t", "\n"}

RECURSIVE TLen(_)
TLen(s) == IF s = <<>> THEN 0 ELSE Head(s)[2] + TLen(Tail(s))

RECURSIVE LStrip(_)
LStrip(s) ==
    IF s = <<>> THEN <<>>
    ELSE IF IsSpace(Head(s)[1]) \/ Head(s)[2] = 0 THEN LStrip(Tail(s))
    ELSE s

RECURSIVE RStrip(_)
RStrip(s) ==
    IF s = <<>> THEN <<>>
    ELSE IF IsSpace(s[Len(s)][1]) \/ s[Len(s)][2] = 0
         THEN RStrip(SubSeq(s, 1, Len(s) - 1))
    ELSE s

\* str.strip()
strip(s) == RStrip(LStrip(s))

-----------------------------------------------------------------------------
(* A dict entry is <<>> when the key is absent and <<v>> when it holds v.   *)

None == <<>>
Some(v) == <<v>>
\* dict.get(key) of a boolean entry used as a condition: absent and False are falsy
Flag(e) == e # None /\ e[1] = TRUE
\* dict.get(key) of a string entry used as a condition: absent and "" are falsy
NonEmpty(e) == e # None /\ e[1] # <<>>
\* dict.get(key, '')
GetStr(e) == IF e = None THEN <<>> ELSE e[1]

ASK_SERVICE == 0
ASK_USERNAME == 1
ASK_PASSWORD == 2
ASK_NOTES == 3

\* context.user_data after clear(), and before the first write
EmptyUserData ==
    [adding_password |-> None, waiting_for_service |-> None,
     is_saving_generated |-> None, conv_state |-> None,
     service_name |-> None, username |-> None, password_to_save |-> None,
     last_generated_password |-> None]

\* The update just handled: its sender, its kind (the callback data of a
\* button, "text" for a message), the sender's conv_state when it arrived, the
\* message the handler tried to show, whether that call returned, and the
\* calls of save_password_to_manager the handler made.
Event(o, kind, notice, sent, creates) ==
    [owner |-> o, kind |-> kind, state |-> user_data[o].conv_state,
     notice |-> notice, sent |-> sent, creates |-> creates]

NoEvent ==
    [owner |-> 0, kind |-> "none", state |-> None, notice |-> "none",
     sent |-> TRUE, creates |-> 0]

-----------------------------------------------------------------------------
(* Store functions *)

\* a row whose id is the table's size plus one, as without AUTOINCREMENT
\* a row whose id is one more than the largest id in the table (a rowid
\* without AUTOINCREMENT)
ManagerRow_after_largest(o, service_name, username, password, notes) ==
    [id |-> 1 + Cardinality({ i \in 1..manager_seq :
                                \E k \in 1..Len(password_manager) :
                                    password_manager[k].id >= i }),
     user_id |-> o, service_name |-> service_name,
     username |-> username, password |-> password, notes |-> notes,
     created_at |-> clock]

ManagerRow_by_size(o, service_name, username, password, notes) ==
    [id |-> Len(password_manager) + 1, user_id |-> o, service_name |-> service_name,
     username |-> username, password |-> password, notes |-> notes,
     created_at |-> clock]

\* save_password_to_manager: the row it inserts
ManagerRow(o, service_name, username, password, notes) ==
    [id |-> manager_seq + 1, user_id |-> o, service_name |-> service_name,
     username |-> username, password |-> password, notes |-> notes,
     created_at |-> clock]

\* save_password_to_manager: its return value
save_ok(dbOk) == ENABLE_STORAGE /\ dbOk

\* a store whose failed INSERT leaves a row without its password behind
save_password_to_manager_partial(o, service_name, username, password, notes, dbOk) ==
    IF ENABLE_STORAGE
    THEN /\ Len(password_manager) < MaxVault
         /\ password_manager' =
               Append(password_manager,
                      ManagerRow(o, service_name, username,
                                 IF dbOk THEN password ELSE <<>>, notes))
         /\ manager_seq' = manager_seq + 1
    ELSE UNCHANGED <<password_manager, manager_seq>>

\* save_password_to_manager: its effect on the table; a failed INSERT or commit
\* leaves the table and the AUTOINCREMENT counter as they were
\* (`cap` is the table size the model explores)
save_password_to_manager_within(cap, o, service_name, username, password, notes, dbOk) ==
    IF save_ok(dbOk)
    THEN /\ Len(password_manager) < cap
         /\ password_manager' =
               Append(password_manager,
                      ManagerRow(o, service_name, username, password, notes))
         /\ manager_seq' = manager_seq + 1
    ELSE UNCHANGED <<password_manager, manager_seq>>

save_password_to_manager(o, service_name, username, password, notes, dbOk) ==
    save_password_to_manager_within(MaxVault, o, service_name, username,
                                    password, notes, dbOk)

\* save_password_to_db: the row it inserts
HistoryRow(o, password, generation_type) ==
    [id |-> history_seq + 1, user_id |-> o, password |-> password,
     generation_type |-> generation_type, created_at |-> clock]

\* save_password_to_db: returns nothing; an exception is logged and swallowed
\* a history that keeps one row, the newest, per user
save_password_to_db_keep_newest(cap, o, password, generation_type, dbOk) ==
    IF ENABLE_STORAGE /\ dbOk
    THEN /\ Len(password_history) < cap
         /\ password_history' =
               Append(SelectSeq(password_history, LAMBDA r : r.user_id # o),
                      HistoryRow(o, password, generation_type))
         /\ history_seq' = history_seq + 1
    ELSE UNCHANGED <<password_history, history_seq>>

\* (`cap` is the table size the model explores)
save_password_to_db_within(cap, o, password, generation_type, dbOk) ==
    IF ENABLE_STORAGE /\ dbOk
    THEN /\ Len(password_history) < cap
         /\ password_history' =
               Append(password_history, HistoryRow(o, password, generation_type))
         /\ history_seq' = history_seq + 1
    ELSE UNCHANGED <<password_history, history_seq>>

save_password_to_db(o, password, generation_type, dbOk) ==
    save_password_to_db_within(MaxHistory, o, password, generation_type, dbOk)

\* the in-memory history keeps the newest 20 entries
HISTORY_KEEP == 20

\* a mirror that keeps the last 20 entries of the list
save_password_to_history_keeps_tail(o, password, password_type) ==
    IF ~ENABLE_STORAGE THEN user_password_history
    ELSE LET entry == [password |-> password, type |-> password_type,
                       timestamp |-> clock]
             list == <<entry>> \o user_password_history[o]
         IN  [user_password_history EXCEPT ![o] =
                 IF Len(list) > HISTORY_KEEP
                 THEN SubSeq(list, Len(list) - HISTORY_KEEP + 1, Len(list))
                 ELSE list]

\* save_password_to_history: the new in-memory list of user o
save_password_to_history(o, password, password_type) ==
    IF ~ENABLE_STORAGE THEN user_password_history
    ELSE LET entry == [password |-> password, type |-> password_type,
                       timestamp |-> clock]
             list == <<entry>> \o user_password_history[o]
         IN  [user_password_history EXCEPT ![o] =
                 IF Len(list) > HISTORY_KEEP THEN SubSeq(list, 1, HISTORY_KEEP)
                 ELSE list]

-----------------------------------------------------------------------------
(* Inputs *)

\* generate_fast(): the passwords the generator is taken to return
GenPasswords == { <<<<"p", 12>>>> }

\* message texts: a padded valid value, a blank message, one character over
\* every limit
ConvTexts ==
    { << <<" ", 1>>, <<"g", 6>>, <<" ", 1>> >>,
      << <<" ", 2>> >>,
      << <<"y", 1001>> >> }

\* message texts at the service-name limit: a padded text of exactly 100
\* characters and one of 101, beside the blank and the over-long one
LimitTexts ==
    { << <<" ", 1>>, <<"s", 100>>, <<" ", 1>> >>,
      << <<"s", 101>> >>,
      << <<" ", 2>> >>,
      << <<"y", 1001>> >> }

-----------------------------------------------------------------------------
(* button_handler *)

Set(o, ud) == user_data' = [user_data EXCEPT ![o] = ud]

\* a generation that also replaces the password of the capture in progress
fast_within_replaces_capture(cap, o, password, dbOk, sent) ==
    /\ Len(user_password_history[o]) < cap
    /\ user_password_history' = save_password_to_history(o, password, "Fast")
    /\ save_password_to_db_within(cap, o, password, "Fast", dbOk)
    /\ Set(o, [user_data[o] EXCEPT !.last_generated_password = Some(password),
                                   !.password_to_save =
                                       IF user_data[o].is_saving_generated = Some(TRUE)
                                       THEN Some(password) ELSE @])
    /\ out' = Event(o, "fast", "password", sent, 0)
    /\ UNCHANGED <<ENABLE_STORAGE, password_manager, manager_seq, user_settings, clock>>

\* query.data == "fast"; "Fast" stands for the type label the code passes
\* (`cap` is the number of generations the model explores)
fast_within(cap, o, password, dbOk, sent) ==
    /\ Len(user_password_history[o]) < cap
    /\ user_password_history' = save_password_to_history(o, password, "Fast")
    /\ save_password_to_db_within(cap, o, password, "Fast", dbOk)
    /\ Set(o, [user_data[o] EXCEPT !.last_generated_password = Some(password)])
    /\ out' = Event(o, "fast", "password", sent, 0)
    /\ UNCHANGED <<ENABLE_STORAGE, password_manager, manager_seq, user_settings, clock>>

fast(o, password, dbOk, sent) == fast_within(MaxHistory, o, password, dbOk, sent)

\* save_generated_password_to_manager: user_data when it returns
save_generated_password_to_manager(ud) ==
    IF ~NonEmpty(ud.last_generated_password) THEN ud
    ELSE [ud EXCEPT !.password_to_save = ud.last_generated_password,
                    !.is_saving_generated = Some(TRUE),
                    !.waiting_for_service = Some(TRUE),
                    !.conv_state = Some(ASK_SERVICE)]

\* query.data == "save_to_manager"
save_to_manager(o, sent) ==
    /\ IF ~ENABLE_STORAGE
       THEN /\ UNCHANGED user_data
            /\ out' = Event(o, "save_to_manager", "storage_disabled", sent, 0)
       ELSE /\ Set(o, save_generated_password_to_manager(user_data[o]))
            /\ out' = Event(o, "save_to_manager",
                            IF NonEmpty(user_data[o].last_generated_password)
                            THEN "ask_service" ELSE "no_generated_password",
                            sent, 0)
    /\ UNCHANGED <<ENABLE_STORAGE, dbVars, memVars, clock>>

\* an add_password_start that does not look at ENABLE_STORAGE
add_password_start_always(o, sent) ==
    /\ Set(o, IF sent
              THEN [user_data[o] EXCEPT !.adding_password = Some(TRUE),
                                        !.is_saving_generated = Some(FALSE),
                                        !.conv_state = Some(ASK_SERVICE)]
              ELSE user_data[o])
    /\ out' = Event(o, "add_password_start", "ask_service", sent, 0)
    /\ UNCHANGED <<ENABLE_STORAGE, dbVars, memVars, clock>>

\* query.data == "add_password_start": the prompt is sent first, the session
\* keys are written after it
add_password_start(o, sent) ==
    /\ IF ~ENABLE_STORAGE
       THEN /\ UNCHANGED user_data
            /\ out' = Event(o, "add_password_start", "storage_disabled", sent, 0)
       ELSE /\ Set(o, IF sent
                      THEN [user_data[o] EXCEPT !.adding_password = Some(TRUE),
                                                !.is_saving_generated = Some(FALSE),
                                                !.conv_state = Some(ASK_SERVICE)]
                      ELSE user_data[o])
            /\ out' = Event(o, "add_password_start", "ask_service", sent, 0)
    /\ UNCHANGED <<ENABLE_STORAGE, dbVars, memVars, clock>>

\* a cancel that ends the conversation and keeps the captured fields
cancel_keeps_fields(o, sent) ==
    /\ Set(o, [user_data[o] EXCEPT !.adding_password = None,
                                   !.waiting_for_service = None,
                                   !.is_saving_generated = None,
                                   !.conv_state = None])
    /\ out' = Event(o, "cancel_add_password", "cancelled", sent, 0)
    /\ UNCHANGED <<ENABLE_STORAGE, dbVars, memVars, clock>>

\* query.data == "cancel_add_password": cancel_add_password clears, then answers
cancel_add_password(o, sent) ==
    /\ Set(o, EmptyUserData)
    /\ out' = Event(o, "cancel_add_password", "cancelled", sent, 0)
    /\ UNCHANGED <<ENABLE_STORAGE, dbVars, memVars, clock>>

\* a skip_username that asks for the password whatever is being saved
skip_username_always_password(ud, sent) ==
    LET ud1 == [ud EXCEPT !.username = Some(<<>>)]
    IN  IF ~sent THEN ud1 ELSE [ud1 EXCEPT !.conv_state = Some(ASK_PASSWORD)]

\* query.data == "skip_username": user_data when the handler ends
skip_username_data(ud, sent) ==
    LET ud1 == [ud EXCEPT !.username = Some(<<>>)]
    IN  IF ~sent THEN ud1
        ELSE IF Flag(ud1.is_saving_generated)
             THEN [ud1 EXCEPT !.conv_state = Some(ASK_NOTES)]
             ELSE [ud1 EXCEPT !.conv_state = Some(ASK_PASSWORD)]

skip_username(o, sent) ==
    /\ Set(o, skip_username_data(user_data[o], sent))
    /\ out' = Event(o, "skip_username",
                    IF Flag(user_data[o].is_saving_generated)
                    THEN "ask_notes" ELSE "ask_password", sent, 0)
    /\ UNCHANGED <<ENABLE_STORAGE, dbVars, memVars, clock>>

\* query.data == "skip_password": the button is offered, no branch handles it
skip_password(o) ==
    /\ out' = Event(o, "skip_password", "none", TRUE, 0)
    /\ UNCHANGED <<ENABLE_STORAGE, user_data, dbVars, memVars, clock>>

\* query.data in ["skip_notes", "skip_notes_generated"]: one branch serves
\* both payloads, and the event is recorded as "skip_notes" for either
skip_notes(o, dbOk, sent) ==
    LET ud == user_data[o]
        service_name == GetStr(ud.service_name)
        username == GetStr(ud.username)
        password == GetStr(ud.password_to_save)
    IN  /\ IF service_name = <<>> \/ password = <<>>
           THEN /\ out' = Event(o, "skip_notes", "missing_fields", sent, 0)
                /\ UNCHANGED <<password_manager, manager_seq>>
           ELSE /\ save_password_to_manager(o, service_name, username, password,
                                            <<>>, dbOk)
                /\ out' = Event(o, "skip_notes",
                                IF save_ok(dbOk) THEN "saved" ELSE "save_failed",
                                sent, 1)
        /\ Set(o, IF sent THEN EmptyUserData ELSE ud)
        /\ UNCHANGED <<ENABLE_STORAGE, password_history, history_seq, memVars, clock>>

-----------------------------------------------------------------------------
(* handle_text_messages *)

\* a service-name limit one character too generous
SERVICE_MAX_off_by_one == 100 + 1

SERVICE_MAX == 100
USERNAME_MAX == 200
\* a password limit that lets over-long texts through
PASSWORD_MAX_loose == 500 * 3

PASSWORD_MAX == 500
NOTES_MAX == 1000

\* the user is in a conversation (the check that lets a text through)
InConversation(ud) == Flag(ud.adding_password) \/ Flag(ud.waiting_for_service)

\* the state the handler dispatches on: conv_state, or ASK_SERVICE when unset
DispatchState(ud) == IF ud.conv_state = None THEN ASK_SERVICE ELSE ud.conv_state[1]

\* What the handler does with the stripped text in user_data ud:
\*   ud     user_data when the handler ends
\*   notice the message it tries to send ("none": it returns silently)
\*   save   whether it calls save_password_to_manager, with notes = text
text_step(ud, text, sent, saved) ==
    LET state == DispatchState(ud)
        ud0 == [ud EXCEPT !.conv_state = Some(state)]
    IN
    IF state = ASK_SERVICE THEN
        IF text = <<>> \/ TLen(text) > SERVICE_MAX
        THEN [ud |-> ud0, notice |-> "invalid_service", save |-> FALSE]
        ELSE [ud |-> IF sent
                     THEN [ud0 EXCEPT !.service_name = Some(text),
                                      !.conv_state = Some(ASK_USERNAME)]
                     ELSE [ud0 EXCEPT !.service_name = Some(text)],
              notice |-> "ask_username", save |-> FALSE]
    ELSE IF state = ASK_USERNAME THEN
        IF TLen(text) > USERNAME_MAX
        THEN [ud |-> ud0, notice |-> "invalid_username", save |-> FALSE]
        ELSE LET ud1 == [ud0 EXCEPT !.username = Some(text)]
             IN  IF Flag(ud1.is_saving_generated)
                 THEN [ud |-> IF sent THEN [ud1 EXCEPT !.conv_state = Some(ASK_NOTES)]
                              ELSE ud1,
                       notice |-> "ask_notes", save |-> FALSE]
                 ELSE [ud |-> IF sent THEN [ud1 EXCEPT !.conv_state = Some(ASK_PASSWORD)]
                              ELSE ud1,
                       notice |-> "ask_password", save |-> FALSE]
    ELSE IF state = ASK_PASSWORD THEN
        IF text = <<>>
        THEN [ud |-> ud0, notice |-> "empty_password", save |-> FALSE]
        ELSE IF TLen(text) > PASSWORD_MAX
        THEN [ud |-> ud0, notice |-> "long_password", save |-> FALSE]
        ELSE [ud |-> IF sent
                     THEN [ud0 EXCEPT !.password_to_save = Some(text),
                                      !.conv_state = Some(ASK_NOTES)]
                     ELSE [ud0 EXCEPT !.password_to_save = Some(text)],
              notice |-> "ask_notes", save |-> FALSE]
    ELSE \* ASK_NOTES
        IF TLen(text) > NOTES_MAX
        THEN [ud |-> ud0, notice |-> "long_notes", save |-> FALSE]
        ELSE IF GetStr(ud0.service_name) = <<>> \/ GetStr(ud0.password_to_save) = <<>>
        THEN [ud |-> IF sent THEN EmptyUserData ELSE ud0,
              notice |-> "missing_fields", save |-> FALSE]
        ELSE [ud |-> IF sent THEN EmptyUserData ELSE ud0,
              notice |-> IF saved THEN "saved" ELSE "save_failed", save |-> TRUE]

\* a text handler that does not ask whether a conversation is going on
handle_text_messages_any_time(o, raw, dbOk, sent) ==
    LET ud == user_data[o]
        text == strip(raw)
        r == text_step(ud, text, sent, save_ok(dbOk))
    IN  IF ~ENABLE_STORAGE
        THEN /\ out' = Event(o, "text", "none", TRUE, 0)
             /\ UNCHANGED <<ENABLE_STORAGE, user_data, dbVars, memVars, clock>>
        ELSE /\ Set(o, r.ud)
             /\ IF r.save
                THEN save_password_to_manager(o, GetStr(ud.service_name),
                                              GetStr(ud.username),
                                              GetStr(ud.password_to_save), text, dbOk)
                ELSE UNCHANGED <<password_manager, manager_seq>>
             /\ out' = Event(o, "text", r.notice, sent, IF r.save THEN 1 ELSE 0)
             /\ UNCHANGED <<ENABLE_STORAGE, password_history, history_seq, memVars, clock>>

handle_text_messages(o, raw, dbOk, sent) ==
    LET ud == user_data[o]
        text == strip(raw)
        r == text_step(ud, text, sent, save_ok(dbOk))
    IN  IF ~ENABLE_STORAGE \/ ~InConversation(ud)
        THEN /\ out' = Event(o, "text", "none", TRUE, 0)
             /\ UNCHANGED <<ENABLE_STORAGE, user_data, dbVars, memVars, clock>>
        ELSE /\ Set(o, r.ud)
             /\ IF r.save
                THEN save_password_to_manager(o, GetStr(ud.service_name),
                                              GetStr(ud.username),
                                              GetStr(ud.password_to_save), text, dbOk)
                ELSE UNCHANGED <<password_manager, manager_seq>>
             /\ out' = Event(o, "text", r.notice, sent, IF r.save THEN 1 ELSE 0)
             /\ UNCHANGED <<ENABLE_STORAGE, password_history, history_seq, memVars, clock>>

-----------------------------------------------------------------------------
(* The history variable.  It follows the updates, not the handlers' writes: *)
(* a start action empties it, a text that is valid for the state it arrives *)
(* in supplies that state's value, the skip button of the username prompt   *)
(* supplies the empty username, and it is emptied with the session.         *)

NoCapture == [service_name |-> None, username |-> None, password |-> None, rows |-> 0]

ValidService(text) == text # <<>> /\ TLen(text) <= 100
ValidUsername(text) == TLen(text) <= 200
ValidPassword(text) == text # <<>> /\ TLen(text) <= 500
ValidNotes(text) == TLen(text) <= 1000

Supplied(c, state, text) ==
    IF state = Some(ASK_SERVICE) /\ ValidService(text)
        THEN [c EXCEPT !.service_name = Some(text)]
    ELSE IF state = Some(ASK_USERNAME) /\ ValidUsername(text)
        THEN [c EXCEPT !.username = Some(text)]
    ELSE IF state = Some(ASK_PASSWORD) /\ ValidPassword(text)
        THEN [c EXCEPT !.password = Some(text)]
    ELSE c

Track(o, kind, text) ==
    LET c == capture[o]
        started == /\ user_data'[o].conv_state = Some(ASK_SERVICE)
                   /\ out'.notice = "ask_service"
                   /\ kind = "add_password_start" => out'.sent
        c1 == IF kind = "add_password_start" /\ started THEN NoCapture
              ELSE IF kind = "save_to_manager" /\ started
                  THEN [NoCapture EXCEPT !.password = user_data[o].last_generated_password]
              ELSE IF kind = "skip_username" THEN [c EXCEPT !.username = Some(<<>>)]
              ELSE IF kind = "text" /\ InConversation(user_data[o])
                  THEN Supplied(c, user_data[o].conv_state, text)
              ELSE c
        c2 == IF Len(password_manager') > Len(password_manager)
              THEN [c1 EXCEPT !.rows = 1] ELSE c1
    IN  capture' = [capture EXCEPT ![o] =
                        IF user_data'[o] = EmptyUserData THEN NoCapture ELSE c2]

-----------------------------------------------------------------------------
(* The bot: any user may press any button an earlier message carries, or    *)
(* send a text, at any time.                                                *)

Init ==
    /\ ENABLE_STORAGE \in BOOLEAN
    /\ user_data = [o \in Owners |-> EmptyUserData]
    /\ password_manager = <<>>
    /\ manager_seq = 0
    /\ password_history = <<>>
    /\ history_seq = 0
    /\ user_password_history = [o \in Owners |-> <<>>]
    /\ user_settings = [o \in Owners |-> None]
    /\ clock = 0
    /\ out = NoEvent
    /\ capture = [o \in Owners |-> NoCapture]

\* the users who talk to the bot in Spec
ConvUsers == {1}

\* One update.  `Outcomes` are the outcomes a Telegram or database call may
\* have (TRUE: it returns, FALSE: it raises), `Texts` the message texts a user
\* may send; `track` says whether the history variable follows the update.
\* Telegram keeps the inline buttons of earlier messages pressable, so every
\* button may arrive in every state.
Follow(track, o, kind, text) ==
    IF track THEN Track(o, kind, text) ELSE UNCHANGED capture

\* (`cap` generations of a password of `Generated`)
StepWithin(cap, Generated, track, Outcomes, Texts) ==
    \E o \in ConvUsers, sent \in Outcomes :
        \/ \E p \in Generated, dbOk \in Outcomes :
              fast_within(cap, o, p, dbOk, sent) /\ Follow(track, o, "fast", <<>>)
        \/ save_to_manager(o, sent) /\ Follow(track, o, "save_to_manager", <<>>)
        \/ add_password_start(o, sent) /\ Follow(track, o, "add_password_start", <<>>)
        \/ cancel_add_password(o, sent) /\ Follow(track, o, "cancel_add_password", <<>>)
        \/ skip_username(o, sent) /\ Follow(track, o, "skip_username", <<>>)
        \/ sent /\ skip_password(o) /\ Follow(track, o, "skip_password", <<>>)
        \/ \E dbOk \in Outcomes :
              skip_notes(o, dbOk, sent) /\ Follow(track, o, "skip_notes", <<>>)
        \/ \E t \in Texts, dbOk \in Outcomes :
              handle_text_messages(o, t, dbOk, sent) /\ Follow(track, o, "text", strip(t))

Step(track, Outcomes, Texts) == StepWithin(MaxHistory, GenPasswords, track, Outcomes, Texts)

Next == Step(FALSE, BOOLEAN, ConvTexts)

\* the conversation of one user with the bot; any call may fail
Spec == Init /\ [][Next]_vars

NextReliable == Step(TRUE, {TRUE}, ConvTexts)

\* the same conversation when no call fails, with the history variable
SpecReliable == Init /\ [][NextReliable]_vars

\* message texts at every limit: of exactly 100, 200, 500 and 1000 characters
\* and of one more, the first one padded, and a blank message
BoundTexts ==
    { << <<" ", 1>>, <<"s", 100>>, <<" ", 1>> >>, << <<"s", 101>> >>,
      << <<"u", 200>> >>, << <<"u", 201>> >>,
      << <<"w", 500>> >>, << <<"w", 501>> >>,
      << <<"n", 1000>> >>, << <<"n", 1001>> >>,
      << <<" ", 2>> >> }

NextBounds == Step(FALSE, {TRUE}, BoundTexts)

\* the conversation with texts at every limit, when no call fails
SpecBounds == Init /\ [][NextBounds]_vars

NextLimits == Step(FALSE, BOOLEAN, LimitTexts)

\* the conversation with texts at the service-name limit; any call may fail
SpecLimits == Init /\ [][NextLimits]_vars

-----------------------------------------------------------------------------
(* The two stores: the queries, and the handlers that run them *)

\* the size the store specification explores: the rows a table is ever given
MaxRows == 2

Min(a, b) == IF a <= b THEN a ELSE b
Max(a, b) == IF a >= b THEN a ELSE b

\* WHERE user_id = ?
OwnerRows(table, o) == SelectSeq(table, LAMBDA r : r.user_id = o)

\* ORDER BY created_at DESC over rows given in rowid order.  created_at is
\* CURRENT_TIMESTAMP, a time in whole seconds; the query names no second key,
\* and sqlite's sorter gives rows of one second in the order it read them
RECURSIVE OrderByCreatedAtDesc(_)
OrderByCreatedAtDesc(rows) ==
    IF rows = <<>> THEN <<>>
    ELSE LET r == Head(rows)
             sorted == OrderByCreatedAtDesc(Tail(rows))
             k == Cardinality({i \in 1..Len(sorted) :
                                 sorted[i].created_at > r.created_at})
         IN  SubSeq(sorted, 1, k) \o <<r>> \o SubSeq(sorted, k + 1, Len(sorted))

\* ORDER BY created_at DESC LIMIT ? OFFSET ?
\* a LIMIT that returns one row more
LimitOffset_one_more(rows, limit, offset) ==
    SubSeq(OrderByCreatedAtDesc(rows), offset + 1, Min(Len(rows), offset + limit + 1))

LimitOffset(rows, limit, offset) ==
    SubSeq(OrderByCreatedAtDesc(rows), offset + 1, Min(Len(rows), offset + limit))

\* SELECT id, service_name, username, password, notes, created_at
ManagerColumns(r) ==
    [id |-> r.id, service_name |-> r.service_name, username |-> r.username,
     password |-> r.password, notes |-> r.notes, created_at |-> r.created_at]

\* SELECT password, generation_type, created_at
HistoryColumns(r) ==
    [password |-> r.password, generation_type |-> r.generation_type,
     created_at |-> r.created_at]

get_user_passwords_from_db(o, limit, offset, dbOk) ==
    IF ~(ENABLE_STORAGE /\ dbOk) THEN <<>>
    ELSE LET rows == OwnerRows(password_history, o)
         IN  LimitOffset([i \in 1..Len(rows) |-> HistoryColumns(rows[i])],
                         limit, offset)

get_user_password_count(o, dbOk) ==
    IF ~(ENABLE_STORAGE /\ dbOk) THEN 0
    ELSE Len(OwnerRows(password_history, o))

\* a clear whose DELETE has no WHERE clause
clear_user_passwords_from_db_all(o, dbOk) ==
    IF ~(ENABLE_STORAGE /\ dbOk) THEN password_history ELSE <<>>

\* clear_user_passwords_from_db: the table when it returns; it returns nothing,
\* and an exception is logged and swallowed
clear_user_passwords_from_db(o, dbOk) ==
    IF ~(ENABLE_STORAGE /\ dbOk) THEN password_history
    ELSE SelectSeq(password_history, LAMBDA r : r.user_id # o)

get_manager_passwords(o, limit, offset, dbOk) ==
    IF ~(ENABLE_STORAGE /\ dbOk) THEN <<>>
    ELSE LET rows == OwnerRows(password_manager, o)
         IN  LimitOffset([i \in 1..Len(rows) |-> ManagerColumns(rows[i])],
                         limit, offset)

\* a count that does not look at ENABLE_STORAGE
get_manager_password_count_unchecked(o, dbOk) ==
    IF ~dbOk THEN 0 ELSE Len(OwnerRows(password_manager, o))

get_manager_password_count(o, dbOk) ==
    IF ~(ENABLE_STORAGE /\ dbOk) THEN 0
    ELSE Len(OwnerRows(password_manager, o))

\* delete_manager_password: its return value
delete_ok(dbOk) == ENABLE_STORAGE /\ dbOk

\* delete_manager_password: the table when it returns
delete_manager_password(o, password_id, dbOk) ==
    IF ~delete_ok(dbOk) THEN password_manager
    ELSE SelectSeq(password_manager,
                   LAMBDA r : ~(r.id = password_id /\ r.user_id = o))

\* a lookup that trusts the id alone
get_manager_password_by_id_alone(o, password_id, dbOk) ==
    IF ~(ENABLE_STORAGE /\ dbOk) THEN None
    ELSE LET rows == SelectSeq(password_manager, LAMBDA r : r.id = password_id)
         IN  IF rows = <<>> THEN None ELSE Some(ManagerColumns(rows[1]))

get_manager_password_by_id(o, password_id, dbOk) ==
    IF ~(ENABLE_STORAGE /\ dbOk) THEN None
    ELSE LET rows == SelectSeq(password_manager,
                               LAMBDA r : r.id = password_id /\ r.user_id = o)
         IN  IF rows = <<>> THEN None ELSE Some(ManagerColumns(rows[1]))

MANAGER_PER_PAGE == 5
HISTORY_PER_PAGE == 10

\* a page arithmetic that forgets the last page
Paginate_unclamped(total, passwords_per_page, requested) ==
    IF total = 0 THEN None
    ELSE LET total_pages == (total + passwords_per_page - 1) \div passwords_per_page
             page == Max(1, requested)
         IN  Some([total_pages |-> total_pages, page |-> page,
                   offset |-> (page - 1) * passwords_per_page])

\* the page arithmetic of show_password_manager and show_password_history_page;
\* with no row the handlers show the empty notice and compute no page
Paginate(total, passwords_per_page, requested) ==
    IF total = 0 THEN None
    ELSE LET total_pages == (total + passwords_per_page - 1) \div passwords_per_page
             page == Max(1, Min(requested, total_pages))
         IN  Some([total_pages |-> total_pages, page |-> page,
                   offset |-> (page - 1) * passwords_per_page])

\* a handled store update: `arg` is the id it named, `result` what the store
\* returned to the caller
StoreEvent(o, kind, notice, sent, creates, arg, result) ==
    [owner |-> o, kind |-> kind, state |-> user_data[o].conv_state,
     notice |-> notice, sent |-> sent, creates |-> creates, arg |-> arg,
     result |-> result]

\* a clear that deletes the owner's rows of both tables
clear_password_history_both_tables(o, dbOk, sent) ==
    /\ IF ~ENABLE_STORAGE
       THEN /\ out' = StoreEvent(o, "clear_password_history", "storage_disabled",
                                 sent, 0, None, None)
            /\ UNCHANGED <<password_history, user_password_history, password_manager>>
       ELSE /\ user_password_history' = [user_password_history EXCEPT ![o] = <<>>]
            /\ password_history' = clear_user_passwords_from_db(o, dbOk)
            /\ password_manager' =
                  IF dbOk THEN SelectSeq(password_manager, LAMBDA r : r.user_id # o)
                  ELSE password_manager
            /\ out' = StoreEvent(o, "clear_password_history", "cleared",
                                 sent, 0, None, None)
    /\ UNCHANGED <<ENABLE_STORAGE, user_data, manager_seq,
                   history_seq, user_settings, clock>>

\* query.data == "clear_history": the in-memory list, then the table, then
\* the notice, which says "cleared" whatever the DELETE did
clear_password_history(o, dbOk, sent) ==
    /\ IF ~ENABLE_STORAGE
       THEN /\ out' = StoreEvent(o, "clear_password_history", "storage_disabled",
                                 sent, 0, None, None)
            /\ UNCHANGED <<password_history, user_password_history>>
       ELSE /\ user_password_history' = [user_password_history EXCEPT ![o] = <<>>]
            /\ password_history' = clear_user_passwords_from_db(o, dbOk)
            /\ out' = StoreEvent(o, "clear_password_history", "cleared",
                                 sent, 0, None, None)
    /\ UNCHANGED <<ENABLE_STORAGE, user_data, password_manager, manager_seq,
                   history_seq, user_settings, clock>>

\* a /delete_<id> that looks the row up and deletes it by its id alone
delete_password_command_by_id(o, password_id, dbGet, dbDelete, sent) ==
    LET found == SelectSeq(password_manager, LAMBDA r : r.id = password_id)
    IN  /\ IF ~ENABLE_STORAGE
           THEN /\ out' = StoreEvent(o, "delete_password_command", "storage_disabled",
                                     sent, 0, Some(password_id), None)
                /\ UNCHANGED password_manager
           ELSE IF ~dbGet \/ found = <<>>
           THEN /\ out' = StoreEvent(o, "delete_password_command", "not_found",
                                     sent, 0, Some(password_id), None)
                /\ UNCHANGED password_manager
           ELSE /\ password_manager' =
                      IF dbDelete
                      THEN SelectSeq(password_manager, LAMBDA r : r.id # password_id)
                      ELSE password_manager
                /\ out' = StoreEvent(o, "delete_password_command",
                                     IF dbDelete THEN "deleted" ELSE "delete_failed",
                                     sent, 0, Some(password_id),
                                     Some(ManagerColumns(found[1])))
        /\ UNCHANGED <<ENABLE_STORAGE, user_data, manager_seq, password_history,
                       history_seq, memVars, clock>>

\* a /delete_<id> that deletes without looking the row up first
delete_password_command_unchecked(o, password_id, dbGet, dbDelete, sent) ==
    /\ IF ~ENABLE_STORAGE
       THEN /\ out' = StoreEvent(o, "delete_password_command", "storage_disabled",
                                 sent, 0, Some(password_id), None)
            /\ UNCHANGED password_manager
       ELSE /\ password_manager' = delete_manager_password(o, password_id, dbDelete)
            /\ out' = StoreEvent(o, "delete_password_command",
                                 IF delete_ok(dbDelete) THEN "deleted"
                                 ELSE "delete_failed",
                                 sent, 0, Some(password_id), None)
    /\ UNCHANGED <<ENABLE_STORAGE, user_data, manager_seq, password_history,
                   history_seq, memVars, clock>>

\* the message /delete_<password_id>
delete_password_command(o, password_id, dbGet, dbDelete, sent) ==
    LET password == get_manager_password_by_id(o, password_id, dbGet)
    IN  /\ IF ~ENABLE_STORAGE
           THEN /\ out' = StoreEvent(o, "delete_password_command", "storage_disabled",
                                     sent, 0, Some(password_id), None)
                /\ UNCHANGED password_manager
           ELSE IF password = None
           THEN /\ out' = StoreEvent(o, "delete_password_command", "not_found",
                                     sent, 0, Some(password_id), None)
                /\ UNCHANGED password_manager
           ELSE /\ password_manager' = delete_manager_password(o, password_id, dbDelete)
                /\ out' = StoreEvent(o, "delete_password_command",
                                     IF delete_ok(dbDelete) THEN "deleted"
                                     ELSE "delete_failed",
                                     sent, 0, Some(password_id), password)
        /\ UNCHANGED <<ENABLE_STORAGE, user_data, manager_seq, password_history,
                       history_seq, memVars, clock>>

\* the value the store calls of user o are given: a text of its own per user
StoreValue(o) == << <<"g", 5 + o>> >>

\* the call save_password_to_manager(user_id, service_name, username, password,
\* notes) the notes step makes, with what it returns as the result
create(o, dbOk) ==
    /\ manager_seq < MaxRows
    /\ save_password_to_manager_within(MaxRows, o, StoreValue(o), <<>>,
                                       StoreValue(o), <<>>, dbOk)
    /\ out' = StoreEvent(o, "create", IF save_ok(dbOk) THEN "saved" ELSE "save_failed",
                         TRUE, 1, None, Some(save_ok(dbOk)))
    /\ UNCHANGED <<ENABLE_STORAGE, user_data, password_history, history_seq,
                   memVars, clock>>

\* the calls save_password_to_history(...) and save_password_to_db(...) a
\* generation makes
\* (`cap` is the length of the in-memory list the model explores)
record_within(cap, o, password, dbOk) ==
    /\ history_seq < MaxRows
    /\ Len(user_password_history[o]) < cap
    /\ user_password_history' = save_password_to_history(o, password, "Fast")
    /\ save_password_to_db_within(MaxRows, o, password, "Fast", dbOk)
    /\ out' = StoreEvent(o, "record", "password", TRUE, 0, None, None)
    /\ UNCHANGED <<ENABLE_STORAGE, user_data, password_manager, manager_seq,
                   user_settings, clock>>

record(o, dbOk) == record_within(MaxHistory, o, StoreValue(o), dbOk)

\* the process ends and is started again with ENABLE_STORAGE read anew: the
\* dictionaries start empty, the database file is the one left behind
restart(enable) ==
    /\ ENABLE_STORAGE' = enable
    /\ user_data' = [o \in Owners |-> EmptyUserData]
    /\ user_password_history' = [o \in Owners |-> <<>>]
    /\ user_settings' = [o \in Owners |-> None]
    /\ out' = [NoEvent EXCEPT !.kind = "restart"]
    /\ UNCHANGED <<dbVars, clock, capture>>

\* the ids a /delete_<id> names: every id given so far and one never given
StoreIds == 1..(MaxRows + 1)

NextStore ==
    \/ \E o \in Owners, dbOk \in BOOLEAN :
          /\ \/ create(o, dbOk)
             \/ record(o, dbOk)
             \/ clear_password_history(o, dbOk, TRUE)
             \/ \E password_id \in StoreIds, dbDelete \in BOOLEAN :
                   delete_password_command(o, password_id, dbOk, dbDelete, TRUE)
          /\ UNCHANGED capture
    \/ \E enable \in BOOLEAN : restart(enable)

\* the two stores under the calls of two users; any database call may fail,
\* and the notice that ends a handler, sent after its writes, is delivered
SpecStore == Init /\ [][NextStore]_vars

\* a start on the database file of an earlier run: one generation recorded
\* for each of the two owners, no vault row yet
InitVault ==
    /\ ENABLE_STORAGE \in BOOLEAN
    /\ user_data = [o \in Owners |-> EmptyUserData]
    /\ password_manager = <<>>
    /\ manager_seq = 0
    /\ password_history =
          [o \in 1..2 |-> [id |-> o, user_id |-> o, password |-> StoreValue(o),
                           generation_type |-> "Fast", created_at |-> 0]]
    /\ history_seq = 2
    /\ user_password_history = [o \in Owners |-> <<>>]
    /\ user_settings = [o \in Owners |-> None]
    /\ clock = 0
    /\ out = NoEvent
    /\ capture = [o \in Owners |-> NoCapture]

NextVault ==
    \/ \E o \in Owners, dbOk \in BOOLEAN :
          /\ \/ create(o, dbOk)
             \/ clear_password_history(o, dbOk, TRUE)
             \/ dbOk /\ add_password_start(o, TRUE)
             \/ dbOk /\ cancel_add_password(o, TRUE)
             \/ \E password_id \in StoreIds, dbDelete \in BOOLEAN :
                   delete_password_command(o, password_id, dbOk, dbDelete, TRUE)
          /\ UNCHANGED capture
    \/ \E enable \in BOOLEAN : restart(enable)

\* the vault under every call that is not a generation: saves, deletes, history
\* clears, and conversations started and cancelled
SpecVault == InitVault /\ [][NextVault]_vars

\* the seconds CURRENT_TIMESTAMP passes through
MaxClock == 1

\* a second of the database clock goes by
tick ==
    /\ clock < MaxClock
    /\ clock' = clock + 1
    /\ out' = [NoEvent EXCEPT !.kind = "tick"]
    /\ UNCHANGED <<ENABLE_STORAGE, user_data, dbVars, memVars, capture>>

\* generate_fast(): two passwords that differ
ListPasswords == { <<<<"g", 8>>>>, <<<<"g", 9>>>> }

NextLists ==
    \/ \E o \in Owners, dbOk \in BOOLEAN :
          /\ \/ create(o, dbOk)
             \/ \E p \in ListPasswords : record_within(MaxRows, o, p, dbOk)
          /\ UNCHANGED capture
    \/ tick

\* rows written to the two tables while the seconds go by
SpecLists == Init /\ [][NextLists]_vars

-----------------------------------------------------------------------------
(* The page arithmetic on its own: a count, a page size and a requested page *)
(* are drawn, and the handlers' arithmetic is applied to them.              *)

MaxTotal == 23
MinRequested == -2
MaxRequested == 6

PageRequest(total, per_page, requested) ==
    [owner |-> 0, kind |-> "page_request", state |-> None, notice |-> "none",
     sent |-> TRUE, creates |-> 0,
     arg |-> Some([total |-> total, per_page |-> per_page, requested |-> requested]),
     result |-> None]

InitPages ==
    /\ ENABLE_STORAGE = TRUE
    /\ user_data = [o \in Owners |-> EmptyUserData]
    /\ password_manager = <<>>
    /\ manager_seq = 0
    /\ password_history = <<>>
    /\ history_seq = 0
    /\ user_password_history = [o \in Owners |-> <<>>]
    /\ user_settings = [o \in Owners |-> None]
    /\ clock = 0
    /\ capture = [o \in Owners |-> NoCapture]
    /\ \E total \in 0..MaxTotal, requested \in MinRequested..MaxRequested,
          per_page \in {MANAGER_PER_PAGE, HISTORY_PER_PAGE} :
          out = PageRequest(total, per_page, requested)

\* the lines from the count to the offset, on the drawn values
paginate ==
    /\ out.kind = "page_request"
    /\ out' = [out EXCEPT !.kind = "page",
                          !.result = Paginate(out.arg[1].total, out.arg[1].per_page,
                                              out.arg[1].requested)]
    /\ UNCHANGED <<ENABLE_STORAGE, user_data, dbVars, memVars, clock, capture>>

NextPages == paginate

SpecPages == InitPages /\ [][NextPages]_vars

\* ceil(a / b) for a >= 0, b > 0, by its definition
Ceil(a, b) == CHOOSE k \in 0..a : k * b >= a /\ (k - 1) * b < a

\* what the pagination policy asks of a computed page
PagePolicy(total, per_page, requested, r) ==
    LET totalPages == Max(1, Ceil(total, per_page))
    IN  /\ r.total_pages = totalPages
        /\ r.page = (IF requested < 1 THEN 1
                     ELSE IF requested > totalPages THEN totalPages ELSE requested)
        /\ r.offset = (r.page - 1) * per_page
        /\ 0 <= r.offset /\ r.offset < Max(total, 1)

\* C16 as stated: for every count >= 0 a page is computed, and it is the one
\* the policy asks for (totalPages at least 1, page clamped, offset in range).
C16_PagePolicyFromZero ==
    out.kind = "page" =>
        /\ out.result # None
        /\ PagePolicy(out.arg[1].total, out.arg[1].per_page, out.arg[1].requested,
                      out.result[1])

\* C16 amended: for every count >= 1 the page computed is the one the policy
\* asks for; for count 0 no page is computed (the empty notice is shown).
C16_PagePolicyFromOne ==
    out.kind = "page" =>
        IF out.arg[1].total = 0 THEN out.result = None
        ELSE /\ out.result # None
             /\ PagePolicy(out.arg[1].total, out.arg[1].per_page,
                           out.arg[1].requested, out.result[1])

\* count 23, page size 10, page 5 requested: 3 pages, page 3, offset 20
C16_Witness ==
    /\ out.kind = "page"
    /\ out.arg = Some([total |-> 23, per_page |-> 10, requested |-> 5])
    /\ out.result = Some([total_pages |-> 3, page |-> 3, offset |-> 20])

-----------------------------------------------------------------------------
(* The two stores (spec 4.3, 4.4), property by property *)

\* the rows of a table that have the given id
WithId(table, id) == SelectSeq(table, LAMBDA r : r.id = id)

\* the reads of owner A, at any LIMIT and OFFSET and whether or not the
\* database answers, give rows of A only and count rows of A only
OwnReadsOnly(A) ==
    \A dbOk \in BOOLEAN :
        /\ \A limit \in {1, MANAGER_PER_PAGE}, offset \in 0..MaxRows :
              LET got == get_manager_passwords(A, limit, offset, dbOk)
              IN  \A i \in 1..Len(got) :
                     \E k \in 1..Len(password_manager) :
                        /\ password_manager[k].user_id = A
                        /\ ManagerColumns(password_manager[k]) = got[i]
        /\ get_manager_password_count(A, dbOk) <= Len(OwnerRows(password_manager, A))
        /\ \A id \in StoreIds :
              LET got == get_manager_password_by_id(A, id, dbOk)
              IN  got # None =>
                     \E k \in 1..Len(password_manager) :
                        /\ password_manager[k].user_id = A
                        /\ password_manager[k].id = id
                        /\ ManagerColumns(password_manager[k]) = got[1]
        /\ \A limit \in {1, HISTORY_PER_PAGE}, offset \in 0..MaxRows :
              LET got == get_user_passwords_from_db(A, limit, offset, dbOk)
              IN  /\ Len(got) <= Len(OwnerRows(password_history, A))
                  /\ \A i \in 1..Len(got) :
                        \E k \in 1..Len(password_history) :
                           /\ password_history[k].user_id = A
                           /\ HistoryColumns(password_history[k]) = got[i]
        /\ get_user_password_count(A, dbOk) <= Len(OwnerRows(password_history, A))

\* C11: in every state the list, count and get-by-id of an owner return and
\* count only that owner's vault and history rows; a /delete_<id> or a history
\* clear of owner A leaves the rows of every other owner as they were, and a
\* delete is answered "deleted" only for an id whose row belongs to A.
C11_OwnRowsOnly ==
    /\ [](\A A \in Owners : OwnReadsOnly(A))
    /\ [][ out'.kind \in {"delete_password_command", "clear_password_history"} =>
              /\ \A B \in Owners \ {out'.owner} :
                    /\ OwnerRows(password_manager', B) = OwnerRows(password_manager, B)
                    /\ OwnerRows(password_history', B) = OwnerRows(password_history, B)
                    /\ user_password_history'[B] = user_password_history[B]
              /\ out'.notice \in {"deleted", "delete_failed"} =>
                    \E k \in 1..Len(password_manager) :
                       /\ password_manager[k].id = out'.arg[1]
                       /\ password_manager[k].user_id = out'.owner
                       /\ out'.result = Some(ManagerColumns(password_manager[k])) ]_vars

\* both owners hold a vault row and a history row, and a /delete_<id> naming
\* the other owner's row has just been refused
C11_Witness ==
    /\ ENABLE_STORAGE
    /\ out.kind = "delete_password_command" /\ out.notice = "not_found"
    /\ \E k \in 1..Len(password_manager) :
          /\ password_manager[k].id = out.arg[1]
          /\ password_manager[k].user_id # out.owner
    /\ \A A \in Owners :
          /\ get_manager_passwords(A, MANAGER_PER_PAGE, 0, TRUE) # <<>>
          /\ get_user_passwords_from_db(A, HISTORY_PER_PAGE, 0, TRUE) # <<>>

\* C12: a /delete_<id> whose id no vault row of the sender has (no row has it,
\* or the row is another owner's) leaves the table as it was, and get-by-id
\* gives every owner what it gave before.
C12_ForeignDeleteChangesNothing ==
    [][ ( /\ out'.kind = "delete_password_command"
          /\ OwnerRows(WithId(password_manager, out'.arg[1]), out'.owner) = <<>> )
        => /\ UNCHANGED <<password_manager, manager_seq>>
           /\ \A B \in Owners, id \in StoreIds :
                 get_manager_password_by_id(B, id, TRUE)' =
                    get_manager_password_by_id(B, id, TRUE) ]_vars

\* the owner of a row still gets it by its id after the other owner's delete
C12_Witness ==
    /\ ENABLE_STORAGE
    /\ out.kind = "delete_password_command" /\ out.sent
    /\ \E B \in Owners \ {out.owner} :
          /\ get_manager_password_by_id(B, out.arg[1], TRUE) # None
          /\ get_manager_password_by_id(out.owner, out.arg[1], TRUE) = None
          /\ Len(OwnerRows(password_manager, out.owner)) = 1

\* C13: with storage on, a /delete_<id> whose id no vault row of the sender
\* has is answered "not found"; it is answered "deleted" only when the sender's
\* row with that id was in the table before and is not in it after.
C13_DeleteResult ==
    [][ out'.kind = "delete_password_command" =>
          LET mine == OwnerRows(WithId(password_manager, out'.arg[1]), out'.owner)
          IN  /\ (ENABLE_STORAGE /\ mine = <<>>) => out'.notice = "not_found"
              /\ mine = <<>> => out'.notice \notin {"deleted", "delete_failed"}
              /\ out'.notice = "deleted" =>
                    /\ Len(mine) = 1
                    /\ WithId(password_manager', out'.arg[1]) = <<>>
                    /\ Len(password_manager') = Len(password_manager) - 1 ]_vars

\* a row was deleted by its owner and another row is still there
C13_Witness ==
    /\ out.kind = "delete_password_command" /\ out.notice = "deleted"
    /\ WithId(password_manager, out.arg[1]) = <<>>
    /\ Len(password_manager) = 1

\* the reads of owner A with storage off: nothing, zero, none
EmptyReads(A) ==
    \A dbOk \in BOOLEAN :
        /\ get_manager_passwords(A, MANAGER_PER_PAGE, 0, dbOk) = <<>>
        /\ get_manager_password_count(A, dbOk) = 0
        /\ \A id \in StoreIds : get_manager_password_by_id(A, id, dbOk) = None
        /\ get_user_passwords_from_db(A, HISTORY_PER_PAGE, 0, dbOk) = <<>>
        /\ get_user_password_count(A, dbOk) = 0

\* C14: with storage off every read gives nothing, zero or none, whatever the
\* tables hold, and no create, record, delete or clear changes a table, a
\* counter or the in-memory history.
C14_DisabledIsNoOp ==
    /\ [](~ENABLE_STORAGE => \A A \in Owners : EmptyReads(A))
    /\ [][ (~ENABLE_STORAGE /\ out'.kind # "restart") =>
              UNCHANGED <<password_manager, manager_seq, password_history,
                          history_seq, user_password_history>> ]_vars

\* storage is off, both tables hold rows of an earlier run, and a create was
\* just called
C14_Witness ==
    /\ ~ENABLE_STORAGE
    /\ out.kind = "create"
    /\ OwnerRows(password_manager, out.owner) # <<>>
    /\ OwnerRows(password_history, out.owner) # <<>>
    /\ get_manager_password_count(out.owner, TRUE) = 0

\* C15: with storage off, save_password_to_manager reports success and adds
\* no row.
C15_DisabledCreateSucceeds ==
    [][ (~ENABLE_STORAGE /\ out'.kind = "create") =>
          /\ out'.result = Some(TRUE)
          /\ UNCHANGED <<password_manager, manager_seq>> ]_vars

-----------------------------------------------------------------------------
(* The capture conversation (spec 4.5), property by property *)

Skips == {"skip_username", "skip_password", "skip_notes"}
Starts == {"add_password_start", "save_to_manager"}

\* the last row of the table after a step that inserted one
NewRow == password_manager'[Len(password_manager')]

\* C1: a capture that ends in a successful save creates exactly one row, owned
\* by the sender and holding the service, username, password and notes the
\* sender supplied in that capture ("" for a skipped username or notes).
C1_RowIsTheCapture ==
    [][ Len(password_manager') > Len(password_manager) =>
          LET o == out'.owner
              c == capture[o]
          IN  /\ NewRow.user_id = o
              /\ c.service_name = Some(NewRow.service_name)
              /\ \/ c.username = Some(NewRow.username)
                 \/ c.username = None /\ NewRow.username = <<>>
              /\ c.password = Some(NewRow.password)
              /\ \/ out'.kind = "skip_notes" /\ NewRow.notes = <<>>
                 \/ /\ out'.kind = "text"
                    /\ \E t \in ConvTexts, dbOk \in BOOLEAN :
                          /\ handle_text_messages(o, t, dbOk, out'.sent)
                          /\ NewRow.notes = strip(t)
              /\ c.rows = 0 ]_vars

\* C2: a start action taken while a session is active leaves nothing of the
\* previous session: no service name, no username, and no password other than
\* the generated one a "save this generated password" start pre-fills.
C2_StartDiscardsPrevious ==
    [][ \A o \in Owners :
          ( /\ out'.owner = o
            /\ out'.kind \in Starts
            /\ out'.notice = "ask_service"
            /\ out'.sent
            /\ InConversation(user_data[o]) )
          => /\ user_data'[o].service_name = None
             /\ user_data'[o].username = None
             /\ \/ user_data'[o].password_to_save = None
                \/ /\ out'.kind = "save_to_manager"
                   /\ user_data'[o].password_to_save =
                        user_data[o].last_generated_password ]_vars

\* C3: a user's state only moves forward along AskService -> AskUsername ->
\* AskPassword -> AskNotes (AskUsername -> AskNotes for a generated password),
\* to Idle when the session ends, or to AskService on a new start.
Forward(o) ==
    LET s == user_data[o].conv_state
        t == user_data'[o].conv_state
        gen == Flag(user_data[o].is_saving_generated)
        k == out'.kind
    IN  \/ t = s
        \/ t = None /\ k \in {"cancel_add_password", "text", "skip_notes"}
        \/ t = Some(ASK_SERVICE) /\ k \in Starts
        \/ s = Some(ASK_SERVICE) /\ t = Some(ASK_USERNAME) /\ k = "text"
        \/ /\ s = Some(ASK_USERNAME) /\ k \in {"text", "skip_username"}
           /\ t = IF gen THEN Some(ASK_NOTES) ELSE Some(ASK_PASSWORD)
        \/ s = Some(ASK_PASSWORD) /\ t = Some(ASK_NOTES) /\ k = "text"

C3_ForwardOnly ==
    [][ \A o \in Owners :
          (InConversation(user_data[o]) \/ out'.kind \in Starts) => Forward(o) ]_vars

\* C4: save_password_to_manager is called only by a text or skip-notes event
\* that arrives while its sender is in AskNotes.
C4_CreateOnlyInAskNotes ==
    out.creates > 0 =>
        out.state = Some(ASK_NOTES) /\ out.kind \in {"text", "skip_notes"}

\* C5: an event in AskNotes that called save_password_to_manager leaves its
\* sender without a session, whether or not the message that reports the
\* outcome was sent.
C5_ClearedAfterCreate ==
    (out.creates > 0 /\ out.state = Some(ASK_NOTES))
        => user_data[out.owner] = EmptyUserData

\* C6: a text that is not valid for the state it arrives in changes nothing of
\* the session (state, stored fields, is_saving_generated) and creates no row.
InvalidFor(state, text) ==
    \/ state = Some(ASK_SERVICE) /\ ~ValidService(text)
    \/ state = Some(ASK_USERNAME) /\ ~ValidUsername(text)
    \/ state = Some(ASK_PASSWORD) /\ ~ValidPassword(text)
    \/ state = Some(ASK_NOTES) /\ ~ValidNotes(text)

C6_InvalidTextChangesNothing ==
    [][ \A t \in LimitTexts, dbOk \in BOOLEAN :
          ( /\ out'.kind = "text"
            /\ InvalidFor(user_data[out'.owner].conv_state, strip(t))
            /\ handle_text_messages(out'.owner, t, dbOk, out'.sent) )
          => /\ user_data' = user_data
             /\ password_manager' = password_manager
             /\ out'.creates = 0 ]_vars

\* a rejected service name, with the generated-password session left as it was
C6_Witness ==
    /\ out.kind = "text" /\ out.notice = "invalid_service"
    /\ out.state = Some(ASK_SERVICE)
    /\ user_data[out.owner].conv_state = Some(ASK_SERVICE)
    /\ user_data[out.owner].is_saving_generated = Some(TRUE)
    /\ user_data[out.owner].password_to_save # None

\* C7: cancel, in whatever state it arrives, leaves its sender with no session
\* and no stored field, calls no store function and leaves both tables alone.
C7_CancelClears ==
    [][ out'.kind = "cancel_add_password" =>
          /\ user_data'[out'.owner] = EmptyUserData
          /\ out'.creates = 0
          /\ UNCHANGED <<password_manager, manager_seq, password_history,
                         history_seq>> ]_vars

\* a cancel that arrived in AskNotes, with a row and a history entry in place
C7_Witness ==
    /\ out.kind = "cancel_add_password" /\ out.state = Some(ASK_NOTES)
    /\ user_data[out.owner] = EmptyUserData
    /\ Len(password_manager) = 1 /\ Len(password_history) = 1

\* C8: no session is in AskPassword with is_saving_generated set, and the
\* username step of such a session (by text or by skip) leads to AskNotes.
C8_GeneratedSkipsAskPassword ==
    \A o \in Owners :
        Flag(user_data[o].is_saving_generated) =>
            /\ user_data[o].conv_state # Some(ASK_PASSWORD)
            /\ ( /\ out.owner = o /\ out.state = Some(ASK_USERNAME)
                 /\ out.kind \in {"text", "skip_username"}
                 /\ out.notice = "ask_notes" /\ out.sent )
               => user_data[o].conv_state = Some(ASK_NOTES)

C8_Witness ==
    /\ out.kind = "skip_username" /\ out.state = Some(ASK_USERNAME)
    /\ Flag(user_data[out.owner].is_saving_generated)
    /\ user_data[out.owner].conv_state = Some(ASK_NOTES)

\* C9: a skip action that arrives while a capture is in AskPassword (service
\* and username supplied) leaves the session in AskPassword, stores no password
\* and creates no row.
C9_NoSkipInAskPassword ==
    [][ \A o \in Owners :
          ( /\ InConversation(user_data[o])
            /\ user_data[o].conv_state = Some(ASK_PASSWORD)
            /\ user_data[o].service_name # None
            /\ user_data[o].username # None
            /\ out'.owner = o /\ out'.kind \in Skips )
          => /\ user_data'[o].conv_state = Some(ASK_PASSWORD)
             /\ user_data'[o].password_to_save = user_data[o].password_to_save
             /\ out'.creates = 0
             /\ password_manager' = password_manager ]_vars

\* C10: an event calls save_password_to_manager at most once; the call either
\* adds one whole row and the user is told it was saved, or adds nothing and
\* the user is told it failed, after which the session is cleared.
C10_FailedSaveAddsNothing ==
    [][ out'.creates > 0 =>
          /\ out'.creates = 1
          /\ \/ /\ out'.notice = "saved"
                /\ Len(password_manager') = Len(password_manager) + 1
                /\ SubSeq(password_manager', 1, Len(password_manager)) = password_manager
             \/ /\ out'.notice = "save_failed"
                /\ UNCHANGED <<password_manager, manager_seq>>
                /\ out'.sent => user_data'[out'.owner] = EmptyUserData ]_vars

\* a failed INSERT with storage enabled, reported, the session cleared
C10_Witness ==
    /\ ENABLE_STORAGE
    /\ out.creates = 1 /\ out.notice = "save_failed" /\ out.sent
    /\ out.state = Some(ASK_NOTES)
    /\ user_data[out.owner] = EmptyUserData
    /\ password_manager = <<>>

-----------------------------------------------------------------------------
(* The vault rows (spec 3), property by property *)

\* C17: every row of the vault has a service name of 1 to 100 characters, a
\* username of at most 200, a password of 1 to 500 and notes of at most 1000.
C17_RowsWithinBounds ==
    \A k \in 1..Len(password_manager) :
        LET r == password_manager[k]
        IN  /\ 1 <= TLen(r.service_name) /\ TLen(r.service_name) <= 100
            /\ TLen(r.username) <= 200
            /\ 1 <= TLen(r.password) /\ TLen(r.password) <= 500
            /\ TLen(r.notes) <= 1000

\* a row saved by a notes text, holding a typed password
C17_Witness ==
    /\ out.kind = "text" /\ out.notice = "saved"
    /\ Len(password_manager) = 1
    /\ password_manager[1].password \notin GenPasswords
    /\ password_manager[1].notes # <<>>

\* C18: a vault row stays in the table with all its fields unless its owner's
\* /delete_<id> names it; a row that appears was created by its owner's create
\* and has an id never given before; no two rows share an id.
C18_RowsStayAsCreated ==
    [][ /\ \A k \in 1..Len(password_manager) :
              LET r == password_manager[k]
              IN  \/ \E j \in 1..Len(password_manager') : password_manager'[j] = r
                  \/ /\ out'.kind = "delete_password_command"
                     /\ out'.owner = r.user_id
                     /\ out'.arg = Some(r.id)
        /\ \A j \in 1..Len(password_manager') :
              LET r == password_manager'[j]
              IN  /\ (\A k \in 1..Len(password_manager) : password_manager[k] # r) =>
                        /\ out'.kind = "create" /\ out'.owner = r.user_id
                        /\ r.id > manager_seq
                  /\ \A i \in 1..Len(password_manager') :
                        password_manager'[i].id = r.id => i = j ]_vars

\* the same service saved twice by one owner: two rows, two ids
C18_Witness ==
    /\ out.kind = "create" /\ out.notice = "saved"
    /\ Len(password_manager) = 2
    /\ password_manager[1].user_id = password_manager[2].user_id
    /\ password_manager[1].service_name = password_manager[2].service_name
    /\ password_manager[1].id # password_manager[2].id

-----------------------------------------------------------------------------
(* The persisted history (spec 4.3), property by property *)

\* C19: a step that is not a history clear leaves every history row in place
\* and unchanged and only appends; a history clear of owner A changes no row
\* and removes no row of another owner.
C19_HistoryAppendOnly ==
    [][ IF out'.kind = "clear_password_history"
        THEN /\ \A j \in 1..Len(password_history') :
                    \E k \in 1..Len(password_history) :
                       password_history[k] = password_history'[j]
             /\ \A B \in Owners \ {out'.owner} :
                    OwnerRows(password_history', B) = OwnerRows(password_history, B)
        ELSE /\ Len(password_history') >= Len(password_history)
             /\ SubSeq(password_history', 1, Len(password_history)) =
                    password_history ]_vars

\* a second generation of one owner was recorded after the first
C19_Witness ==
    /\ out.kind = "record"
    /\ Len(password_history) = 2
    /\ password_history[1].user_id = password_history[2].user_id
    /\ password_history[1].id # password_history[2].id

\* C20: after a history clear of owner A that is reported as done the count of
\* A is 0 and the list of A is empty; the rows of every other owner are as
\* before; a clear of an empty history changes nothing, so a second clear gives
\* the state of the first.
C20_ClearEmptiesHistory ==
    [][ \A A \in Owners :
          (out'.kind = "clear_password_history" /\ out'.owner = A) =>
             /\ out'.notice = "cleared" =>
                   /\ OwnerRows(password_history', A) = <<>>
                   /\ get_user_password_count(A, TRUE)' = 0
                   /\ get_user_passwords_from_db(A, HISTORY_PER_PAGE, 0, TRUE)' = <<>>
             /\ \A B \in Owners \ {A} :
                   OwnerRows(password_history', B) = OwnerRows(password_history, B)
             /\ OwnerRows(password_history, A) = <<>> =>
                   password_history' = password_history ]_vars

-----------------------------------------------------------------------------
(* PasswordGenerator (main.py:40-72; main_simple.py:24-55 is the same with  *)
(* random.choice in place of secrets.choice)                                *)

\* string.ascii_lowercase, string.ascii_uppercase, string.digits and the
\* symbols of __init__, each a sequence of characters
lowercase ==
    << "a", "b", "c", "d", "e", "f", "g", "h", "i", "j", "k", "l", "m",
       "n", "o", "p", "q", "r", "s", "t", "u", "v", "w", "x", "y", "z" >>
uppercase ==
    << "A", "B", "C", "D", "E", "F", "G", "H", "I", "J", "K", "L", "M",
       "N", "O", "P", "Q", "R", "S", "T", "U", "V", "W", "X", "Y", "Z" >>
digits ==
    << "0", "1", "2", "3", "4", "5", "6", "7", "8", "9" >>
symbols ==
    << "!", "@", "#", "$", "%", "^", "&", "*", "(", ")", "_", "+", "-",
       "=", "[", "]", "{", "}", "|", ";", ":", ",", ".", "<", ">", "?" >>

\* the longest password asked for
MaxLength == 2

\* generate_fast: chars
FastChars == lowercase \o uppercase \o digits \o symbols

\* a generate_custom whose fallback alphabet is the one of generate_fast
CustomChars_fallback_all(f) ==
    LET chars == (IF f.use_lowercase THEN lowercase ELSE <<>>)
                 \o (IF f.use_uppercase THEN uppercase ELSE <<>>)
                 \o (IF f.use_digits THEN digits ELSE <<>>)
                 \o (IF f.use_symbols THEN symbols ELSE <<>>)
    IN  IF chars = <<>> THEN FastChars ELSE chars

\* generate_custom: chars, for the four flags f
CustomChars(f) ==
    LET chars == (IF f.use_lowercase THEN lowercase ELSE <<>>)
                 \o (IF f.use_uppercase THEN uppercase ELSE <<>>)
                 \o (IF f.use_digits THEN digits ELSE <<>>)
                 \o (IF f.use_symbols THEN symbols ELSE <<>>)
    IN  IF chars = <<>> THEN lowercase \o uppercase \o digits ELSE chars

\* a loop that draws once even when no character is asked for
Draws_at_least_one(length) == IF length > 1 THEN length ELSE 1

\* len(range(length)): the draws of the generator expression
Draws(length) == IF length > 0 THEN length ELSE 0

Flags == [use_lowercase : BOOLEAN, use_uppercase : BOOLEAN,
          use_digits : BOOLEAN, use_symbols : BOOLEAN]

AllFlags == [use_lowercase |-> TRUE, use_uppercase |-> TRUE,
             use_digits |-> TRUE, use_symbols |-> TRUE]

\* a call of generate_fast or generate_custom and the characters drawn so far
Generation(fn, length, flags, drawn, kind) ==
    [owner |-> 0, kind |-> kind, state |-> None, notice |-> "none",
     sent |-> TRUE, creates |-> 0,
     arg |-> Some([fn |-> fn, length |-> length, flags |-> flags]),
     result |-> Some(drawn)]

InitGenerator ==
    /\ ENABLE_STORAGE = TRUE
    /\ user_data = [o \in Owners |-> EmptyUserData]
    /\ password_manager = <<>>
    /\ manager_seq = 0
    /\ password_history = <<>>
    /\ history_seq = 0
    /\ user_password_history = [o \in Owners |-> <<>>]
    /\ user_settings = [o \in Owners |-> None]
    /\ clock = 0
    /\ capture = [o \in Owners |-> NoCapture]
    /\ \E length \in 0..MaxLength :
          \/ out = Generation("generate_fast", length, AllFlags, <<>>, "drawing")
          \/ \E f \in Flags :
                out = Generation("generate_custom", length, f, <<>>, "drawing")

\* the alphabet of the call in progress
Chars == IF out.arg[1].fn = "generate_fast" THEN FastChars
         ELSE CustomChars(out.arg[1].flags)

\* secrets.choice(chars), once more
choice ==
    /\ out.kind = "drawing"
    /\ Len(out.result[1]) < Draws(out.arg[1].length)
    /\ \E i \in 1..Len(Chars) :
          out' = [out EXCEPT !.result = Some(Append(out.result[1], Chars[i]))]
    /\ UNCHANGED <<ENABLE_STORAGE, user_data, dbVars, memVars, clock, capture>>

\* ''.join(...): the generator expression is exhausted and the string returned
join ==
    /\ out.kind = "drawing"
    /\ Len(out.result[1]) = Draws(out.arg[1].length)
    /\ out' = [out EXCEPT !.kind = "generated"]
    /\ UNCHANGED <<ENABLE_STORAGE, user_data, dbVars, memVars, clock, capture>>

NextGenerator == choice \/ join

SpecGenerator == InitGenerator /\ [][NextGenerator]_vars

-----------------------------------------------------------------------------
(* The two escaping functions (main.py:102-118) *)

\* the longest text rendered
MaxText == 3

\* the character U+0060 of the pattern and of the code span, written by name
\* (a string of this module cannot hold it)
Backtick == "backtick"

\* the character class of the pattern of escape_markdown_v2
Reserved_without_backslash ==
    { "_", "*", "[", "]", "(", ")", "~", Backtick, ">", "#", "+", "-", "=",
      "|", "{", "}", ".", "!" }

Reserved == {"\\"} \cup Reserved_without_backslash

\* the characters of the texts rendered: the reserved ones, a letter, a space
TextChars == Reserved \cup {"a", " "}

RenderTexts == UNION { [1..n -> TextChars] : n \in 0..MaxText }

\* an escape that leaves the backslash as it is
escape_markdown_v2_keeps_backslash(text) ==
    LET value == IF text = None THEN <<>> ELSE text[1]
        sub[i \in 0..Len(value)] ==
            IF i = 0 THEN <<>>
            ELSE sub[i - 1] \o (IF value[i] \in Reserved_without_backslash
                                THEN <<"\\", value[i]>> ELSE <<value[i]>>)
    IN  sub[Len(value)]

\* re.sub: every match of the pattern, from the left, is replaced by a
\* backslash and the character matched; text is None or Some(string)
escape_markdown_v2(text) ==
    LET value == IF text = None THEN <<>> ELSE text[1]
        sub[i \in 0..Len(value)] ==
            IF i = 0 THEN <<>>
            ELSE sub[i - 1] \o (IF value[i] \in Reserved
                                THEN <<"\\", value[i]>> ELSE <<value[i]>>)
    IN  sub[Len(value)]

\* str.replace(old, new) for a one-character old
replace(value, old, new) ==
    LET sub[i \in 0..Len(value)] ==
            IF i = 0 THEN <<>>
            ELSE sub[i - 1] \o (IF value[i] = old THEN new ELSE <<value[i]>>)
    IN  sub[Len(value)]

\* a code span that escapes the backticks before it doubles the backslashes
safe_monospace_password_backticks_first(password) ==
    IF password = None \/ password = Some(<<>>) THEN <<>>
    ELSE LET escaped == replace(replace(password[1], Backtick, <<"\\", Backtick>>),
                                "\\", <<"\\", "\\">>)
         IN  <<Backtick>> \o escaped \o <<Backtick>>

\* password is None or Some(string); no str method raises on a string
safe_monospace_password(password) ==
    IF password = None \/ password = Some(<<>>) THEN <<>>
    ELSE LET escaped == replace(replace(password[1], "\\", <<"\\", "\\">>),
                                Backtick, <<"\\", Backtick>>)
         IN  <<Backtick>> \o escaped \o <<Backtick>>

\* a call of one of the two functions: its argument, and its value once made
Rendering(fn, text, kind, rendered) ==
    [owner |-> 0, kind |-> kind, state |-> None, notice |-> "none",
     sent |-> TRUE, creates |-> 0,
     arg |-> Some([fn |-> fn, text |-> text]), result |-> rendered]

InitRender ==
    /\ ENABLE_STORAGE = TRUE
    /\ user_data = [o \in Owners |-> EmptyUserData]
    /\ password_manager = <<>>
    /\ manager_seq = 0
    /\ password_history = <<>>
    /\ history_seq = 0
    /\ user_password_history = [o \in Owners |-> <<>>]
    /\ user_settings = [o \in Owners |-> None]
    /\ clock = 0
    /\ capture = [o \in Owners |-> NoCapture]
    /\ \E fn \in {"escape_markdown_v2", "safe_monospace_password"},
          text \in {None} \cup {Some(t) : t \in RenderTexts} :
          out = Rendering(fn, text, "render_request", None)

escape ==
    /\ out.kind = "render_request" /\ out.arg[1].fn = "escape_markdown_v2"
    /\ out' = [out EXCEPT !.kind = "rendered",
                          !.result = Some(escape_markdown_v2(out.arg[1].text))]
    /\ UNCHANGED <<ENABLE_STORAGE, user_data, dbVars, memVars, clock, capture>>

codeSpan ==
    /\ out.kind = "render_request" /\ out.arg[1].fn = "safe_monospace_password"
    /\ out' = [out EXCEPT !.kind = "rendered",
                          !.result = Some(safe_monospace_password(out.arg[1].text))]
    /\ UNCHANGED <<ENABLE_STORAGE, user_data, dbVars, memVars, clock, capture>>

NextRender == escape \/ codeSpan

SpecRender == InitRender /\ [][NextRender]_vars

-----------------------------------------------------------------------------
(* The generation settings: show_detailed_options, handle_toggle,           *)
(* handle_length_selection, generate_custom_password (main.py:976-1230)     *)

\* the dict written when user_id is not in user_settings
DefaultSettings ==
    [length |-> 12, lowercase |-> TRUE, uppercase |-> TRUE, digits |-> TRUE,
     symbols |-> TRUE]

\* if user_id not in user_settings: user_settings[user_id] = {...}
WithDefaults(settings) == IF settings = None THEN Some(DefaultSettings) ELSE settings

\* the names a toggle_<name> button carries, and one no keyboard carries
ToggleTypes == {"lowercase", "uppercase", "digits", "symbols"}
ToggleData == ToggleTypes \cup {"other"}

\* the lengths of the length_<n> buttons
LengthChoices == {8, 12, 16, 20, 24, 32}

\* generate_custom(...) of the settings: a password of settings['length']
\* characters (the characters drawn are those of SpecGenerator)
CustomPassword(settings) == << <<"p", settings.length>> >>

\* query.data == "detailed"
detailed(o, sent) ==
    /\ user_settings' = [user_settings EXCEPT ![o] = WithDefaults(@)]
    /\ out' = StoreEvent(o, "detailed", "options", sent, 0, None, None)
    /\ UNCHANGED <<ENABLE_STORAGE, user_data, dbVars, user_password_history, clock>>

\* query.data == "toggle_<toggle_type>"
\* a toggle that switches the class on
handle_toggle_switches_on(o, toggle_type, sent) ==
    LET settings == WithDefaults(user_settings[o])[1]
    IN  /\ IF toggle_type \notin ToggleTypes
           THEN /\ user_settings' = [user_settings EXCEPT ![o] = Some(settings)]
                /\ out' = StoreEvent(o, "toggle", "unknown_parameter", sent, 0,
                                     Some(toggle_type), None)
           ELSE /\ user_settings' =
                      [user_settings EXCEPT ![o] =
                          Some([settings EXCEPT ![toggle_type] = TRUE])]
                /\ out' = StoreEvent(o, "toggle", "options", sent, 0,
                                     Some(toggle_type), None)
        /\ UNCHANGED <<ENABLE_STORAGE, user_data, dbVars, user_password_history, clock>>

handle_toggle(o, toggle_type, sent) ==
    LET settings == WithDefaults(user_settings[o])[1]
    IN  /\ IF toggle_type \notin ToggleTypes
           THEN /\ user_settings' = [user_settings EXCEPT ![o] = Some(settings)]
                /\ out' = StoreEvent(o, "toggle", "unknown_parameter", sent, 0,
                                     Some(toggle_type), None)
           ELSE /\ user_settings' =
                      [user_settings EXCEPT ![o] =
                          Some([settings EXCEPT ![toggle_type] = ~settings[toggle_type]])]
                /\ out' = StoreEvent(o, "toggle", "options", sent, 0,
                                     Some(toggle_type), None)
        /\ UNCHANGED <<ENABLE_STORAGE, user_data, dbVars, user_password_history, clock>>

\* query.data == "length_<n>": user_settings[user_id]['length'] = length
\* raises KeyError when user_id is not in user_settings; button_handler
\* catches it and answers "an error occurred"
handle_length_selection(o, length, sent) ==
    /\ IF user_settings[o] = None
       THEN /\ UNCHANGED user_settings
            /\ out' = StoreEvent(o, "length", "error", sent, 0, Some(length), None)
       ELSE /\ user_settings' =
                  [user_settings EXCEPT ![o] =
                      Some([user_settings[o][1] EXCEPT !.length = length])]
            /\ out' = StoreEvent(o, "length", "options", sent, 0, Some(length), None)
    /\ UNCHANGED <<ENABLE_STORAGE, user_data, dbVars, user_password_history, clock>>

\* query.data == "length_menu": the six buttons, no settings read
length_menu(o, sent) ==
    /\ out' = StoreEvent(o, "length_menu", "lengths", sent, 0, None, None)
    /\ UNCHANGED <<ENABLE_STORAGE, user_data, dbVars, memVars, clock>>

\* a custom generation recorded under the label of the fast one
generate_custom_password_within_as_fast(cap, o, dbOk, sent) ==
    LET settings == WithDefaults(user_settings[o])[1]
        password == CustomPassword(settings)
    IN  /\ Len(user_password_history[o]) < cap
        /\ user_settings' = [user_settings EXCEPT ![o] = Some(settings)]
        /\ user_password_history' = save_password_to_history(o, password, "Custom")
        /\ save_password_to_db_within(cap, o, password, "Fast", dbOk)
        /\ Set(o, [user_data[o] EXCEPT !.last_generated_password = Some(password)])
        /\ out' = StoreEvent(o, "generate_custom", "password", sent, 0, None, None)
        /\ UNCHANGED <<ENABLE_STORAGE, password_manager, manager_seq, clock>>

\* query.data == "generate_custom"; "Custom" stands for the type label
\* (`cap` is the number of generations the model explores)
generate_custom_password_within(cap, o, dbOk, sent) ==
    LET settings == WithDefaults(user_settings[o])[1]
        password == CustomPassword(settings)
    IN  /\ Len(user_password_history[o]) < cap
        /\ user_settings' = [user_settings EXCEPT ![o] = Some(settings)]
        /\ user_password_history' = save_password_to_history(o, password, "Custom")
        /\ save_password_to_db_within(cap, o, password, "Custom", dbOk)
        /\ Set(o, [user_data[o] EXCEPT !.last_generated_password = Some(password)])
        /\ out' = StoreEvent(o, "generate_custom", "password", sent, 0, None, None)
        /\ UNCHANGED <<ENABLE_STORAGE, password_manager, manager_seq, clock>>

generate_custom_password(o, dbOk, sent) ==
    generate_custom_password_within(MaxHistory, o, dbOk, sent)

\* generations one user makes while a capture is in progress
MaxGenerated == 2

\* generate_fast(): a password that differs from the custom one
GeneratedPasswords == { <<<<"f", 12>>>> }

NextGenerated ==
    \/ StepWithin(MaxGenerated, GeneratedPasswords, TRUE, BOOLEAN, {<< <<"g", 6>> >>})
    \/ \E o \in ConvUsers, dbOk \in BOOLEAN, sent \in BOOLEAN :
          /\ generate_custom_password_within(MaxGenerated, o, dbOk, sent)
          /\ Track(o, "generate_custom", <<>>)

\* the conversation of one user who generates passwords at any time, with the
\* history variable; any call may fail
SpecGenerated == Init /\ [][NextGenerated]_vars

-----------------------------------------------------------------------------
(* The pages of the two lists, shown from tables that nobody writes to *)

\* rows the two tables hold when the pages are opened
MaxManagerRows == 15
MaxHistoryRows == 28
\* the largest page number a button or an old message may carry
MaxPage == 4

\* the seconds of the rows: two rows a second; every fourth row is user 2's
ShownOwner(i) == IF i % 4 = 0 THEN 2 ELSE 1
ShownManagerTable(n) ==
    [i \in 1..n |-> [id |-> i, user_id |-> ShownOwner(i),
                     service_name |-> << <<"s", 1 + (i % 3)>> >>, username |-> <<>>,
                     password |-> << <<"w", 8>> >>, notes |-> <<>>,
                     created_at |-> i \div 2]]
ShownHistoryTable(n) ==
    [i \in 1..n |-> [id |-> i, user_id |-> ShownOwner(i),
                     password |-> << <<"p", 12>> >>,
                     generation_type |-> IF i % 3 = 0 THEN "Custom" ELSE "Fast",
                     created_at |-> i \div 2]]

InitShown ==
    /\ ENABLE_STORAGE = TRUE
    /\ user_data = [o \in Owners |-> EmptyUserData]
    /\ \E n \in 0..MaxManagerRows :
          password_manager = ShownManagerTable(n) /\ manager_seq = n
    /\ \E n \in 0..MaxHistoryRows :
          password_history = ShownHistoryTable(n) /\ history_seq = n
    /\ user_password_history = [o \in Owners |-> <<>>]
    /\ user_settings = [o \in Owners |-> None]
    /\ clock = 1 + (MaxHistoryRows \div 2)
    /\ out = NoEvent
    /\ capture = [o \in Owners |-> NoCapture]

\* show_password_manager: the page it shows (None: the empty notice)
ManagerPage(o, requested) ==
    LET pg == Paginate(get_manager_password_count(o, TRUE), MANAGER_PER_PAGE, requested)
    IN  IF pg = None THEN None
        ELSE Some([page |-> pg[1].page, total_pages |-> pg[1].total_pages,
                   passwords |-> get_manager_passwords(o, MANAGER_PER_PAGE,
                                                       pg[1].offset, TRUE)])

\* show_password_history_page: the page it shows (None: the empty notice)
HistoryPage(o, requested) ==
    LET pg == Paginate(get_user_password_count(o, TRUE), HISTORY_PER_PAGE, requested)
    IN  IF pg = None THEN None
        ELSE Some([page |-> pg[1].page, total_pages |-> pg[1].total_pages,
                   passwords |-> get_user_passwords_from_db(o, HISTORY_PER_PAGE,
                                                            pg[1].offset, TRUE)])

\* query.data == "password_manager" / "manager_page_<n>"
show_password_manager(o, page) ==
    /\ out' = StoreEvent(o, "show_password_manager",
                         IF ManagerPage(o, page) = None THEN "empty" ELSE "page",
                         TRUE, 0, Some(page), ManagerPage(o, page))
    /\ UNCHANGED <<ENABLE_STORAGE, user_data, dbVars, memVars, clock, capture>>

\* query.data == "history" / "history_page_<n>"
show_password_history_page(o, page) ==
    /\ out' = StoreEvent(o, "show_password_history_page",
                         IF HistoryPage(o, page) = None THEN "empty" ELSE "page",
                         TRUE, 0, Some(page), HistoryPage(o, page))
    /\ UNCHANGED <<ENABLE_STORAGE, user_data, dbVars, memVars, clock, capture>>

NextShown ==
    \E o \in Owners, page \in 0..MaxPage :
        \/ show_password_manager(o, page)
        \/ show_password_history_page(o, page)

\* two users leaf through their lists; every database call returns and no
\* row is written meanwhile
SpecShown == InitShown /\ [][NextShown]_vars

-----------------------------------------------------------------------------
(* The history in memory and in the table *)

NextHistory ==
    \/ \E o \in Owners, dbOk \in BOOLEAN :
          /\ \/ \E p \in ListPasswords : record_within(MaxRows, o, p, dbOk)
             \/ clear_password_history(o, dbOk, TRUE)
          /\ UNCHANGED capture
    \/ tick

\* generations and history clears of two users while the seconds go by; any
\* database call may fail
SpecHistory == Init /\ [][NextHistory]_vars

-----------------------------------------------------------------------------
(* The in-memory history near its limit of 20 entries *)

\* generations the first user makes beyond the limit, and the entries short of
\* the limit it may start with
MaxMore == 2

\* user 1 has generated k passwords, one a minute, and every INSERT returned
InitMirror ==
    \E k \in (HISTORY_KEEP - MaxMore)..HISTORY_KEEP :
        /\ ENABLE_STORAGE = TRUE
        /\ user_data = [o \in Owners |-> EmptyUserData]
        /\ password_manager = <<>>
        /\ manager_seq = 0
        /\ password_history =
              [i \in 1..k |-> [id |-> i, user_id |-> 1, password |-> << <<"p", 12>> >>,
                               generation_type |-> "Fast", created_at |-> i]]
        /\ history_seq = k
        /\ user_password_history =
              [o \in Owners |->
                  IF o = 1
                  THEN [i \in 1..k |-> [password |-> << <<"p", 12>> >>, type |-> "Fast",
                                        timestamp |-> k + 1 - i]]
                  ELSE <<>>]
        /\ user_settings = [o \in Owners |-> None]
        /\ clock = k + 1
        /\ out = NoEvent
        /\ capture = [o \in Owners |-> NoCapture]

NextMirror ==
    \E o \in ConvUsers, sent \in BOOLEAN :
        /\ \/ \E p \in GeneratedPasswords :
                 fast_within(HISTORY_KEEP + MaxMore, o, p, TRUE, sent)
           \/ generate_custom_password_within(HISTORY_KEEP + MaxMore, o, TRUE, sent)
        /\ UNCHANGED capture

\* a user who goes on generating with the in-memory history at its limit
SpecMirror == InitMirror /\ [][NextMirror]_vars

NextSettings ==
    \E o \in ConvUsers, sent \in BOOLEAN :
        /\ \/ detailed(o, sent)
           \/ \E toggle_type \in ToggleData : handle_toggle(o, toggle_type, sent)
           \/ length_menu(o, sent)
           \/ \E length \in LengthChoices : handle_length_selection(o, length, sent)
           \/ \E dbOk \in BOOLEAN : generate_custom_password(o, dbOk, sent)
        /\ UNCHANGED capture

\* one user at the options of the custom generation; the buttons pressed may
\* be those of any message of the chat, also of one sent before this process
\* was started
SpecSettings == Init /\ [][NextSettings]_vars

-----------------------------------------------------------------------------
(* Two users at once.  Application.builder() is built without               *)
(* concurrent_updates (main.py:2057): an update is handled to its end       *)
(* before the next one is taken, so the handlers of two users interleave    *)
(* update by update.                                                        *)

NextOwners ==
    \E o \in Owners, dbOk \in BOOLEAN :
        /\ \/ create(o, dbOk)
           \/ record(o, dbOk)
           \/ clear_password_history(o, dbOk, TRUE)
           \/ dbOk /\ add_password_start(o, TRUE)
           \/ dbOk /\ cancel_add_password(o, TRUE)
           \/ dbOk /\ detailed(o, TRUE)
           \/ \E password_id \in StoreIds, dbDelete \in BOOLEAN :
                 delete_password_command(o, password_id, dbOk, dbDelete, TRUE)
        /\ UNCHANGED capture

\* the updates of two users, taken in any order: saves, generations, history
\* clears, deletes, sessions started and cancelled, the options opened
SpecOwners == Init /\ [][NextOwners]_vars

-----------------------------------------------------------------------------
(* The order of the lists (spec 4.3, 4.4) *)

\* `list` shows rows of `rows` (given in the order they were created), each
\* one created after the ones shown below it
NewestFirst(list, rows) ==
    \E f \in [1..Len(list) -> 1..Len(rows)] :
        /\ \A i \in 1..Len(list) : list[i] = rows[f[i]]
        /\ \A i, j \in 1..Len(list) : i < j => f[i] > f[j]

\* the LIMIT and OFFSET values a list is asked with
ListLimits == {1, MANAGER_PER_PAGE}
ListOffsets == 0..1

\* C21: a list of either store, for every owner, limit and offset, has at most
\* limit rows, all of that owner, and no row in it was created earlier than a
\* row that comes after it.
C21_ListsNewestFirst ==
    \A A \in Owners, limit \in ListLimits, offset \in ListOffsets :
       LET vault == OwnerRows(password_manager, A)
           history == OwnerRows(password_history, A)
           m == get_manager_passwords(A, limit, offset, TRUE)
           h == get_user_passwords_from_db(A, limit, offset, TRUE)
       IN  /\ Len(m) <= limit /\ Len(h) <= limit
           /\ NewestFirst(m, [i \in 1..Len(vault) |-> ManagerColumns(vault[i])])
           /\ NewestFirst(h, [i \in 1..Len(history) |-> HistoryColumns(history[i])])

-----------------------------------------------------------------------------
(* PasswordGenerator (spec 4.1), property by property *)

Range(s) == {s[i] : i \in 1..Len(s)}

\* the characters of the classes whose flag is set
EnabledClasses(f) ==
    (IF f.use_lowercase THEN Range(lowercase) ELSE {})
    \cup (IF f.use_uppercase THEN Range(uppercase) ELSE {})
    \cup (IF f.use_digits THEN Range(digits) ELSE {})
    \cup (IF f.use_symbols THEN Range(symbols) ELSE {})

\* C22: for a length L >= 1 and any four flags, generate_custom returns L
\* characters, each of an enabled class; with no flag set each is a lowercase
\* letter, an uppercase letter or a digit, and none is a symbol.
C22_CustomLengthAndAlphabet ==
    (out.kind = "generated" /\ out.arg[1].fn = "generate_custom"
                            /\ out.arg[1].length >= 1) =>
        LET f == out.arg[1].flags
            password == out.result[1]
        IN  /\ Len(password) = out.arg[1].length
            /\ IF EnabledClasses(f) # {}
               THEN Range(password) \subseteq EnabledClasses(f)
               ELSE /\ Range(password) \subseteq
                          Range(lowercase) \cup Range(uppercase) \cup Range(digits)
                    /\ Range(password) \cap Range(symbols) = {}

\* a password of the longest length drawn with no flag set
C22_Witness ==
    /\ out.kind = "generated" /\ out.arg[1].fn = "generate_custom"
    /\ out.arg[1].length = MaxLength
    /\ EnabledClasses(out.arg[1].flags) = {}
    /\ Len(out.result[1]) = MaxLength

\* C23: for every length L >= 0, generate_fast returns L characters, each a
\* lowercase letter, an uppercase letter, a digit or one of the symbols.
C23_FastLengthAndAlphabet ==
    (out.kind = "generated" /\ out.arg[1].fn = "generate_fast") =>
        /\ Len(out.result[1]) = out.arg[1].length
        /\ Range(out.result[1]) \subseteq
              Range(lowercase) \cup Range(uppercase) \cup Range(digits)
              \cup Range(symbols)

\* a password of the longest length that ends in a symbol
C23_Witness ==
    /\ out.kind = "generated" /\ out.arg[1].fn = "generate_fast"
    /\ out.arg[1].length = MaxLength
    /\ out.result[1][MaxLength] = "?"

-----------------------------------------------------------------------------
(* TextSanitizer (spec 4.2), property by property *)

\* the text with the backslash before each escaped character taken away
RECURSIVE Unescape(_)
Unescape(s) ==
    IF s = <<>> THEN <<>>
    ELSE IF Head(s) = "\\" /\ Len(s) >= 2
         THEN <<s[2]>> \o Unescape(SubSeq(s, 3, Len(s)))
         ELSE <<Head(s)>> \o Unescape(Tail(s))

\* how many of the first n characters of s are in set
CountIn(s, n, set) == Cardinality({i \in 1..n : s[i] \in set})

\* the backslashes that stand right before position k of s
RECURSIVE BackslashesBefore(_, _)
BackslashesBefore(s, k) ==
    IF k > 1 /\ s[k - 1] = "\\" THEN 1 + BackslashesBefore(s, k - 1) ELSE 0

\* C24: the code span of a non-empty text t is t with its backslashes doubled
\* and its backticks prefixed by a backslash, between two backticks: every
\* backtick inside has an odd number of backslashes right before it, and
\* un-escaping the inside gives t.
C24_CodeSpanRoundTrip ==
    (out.kind = "rendered" /\ out.arg[1].fn = "safe_monospace_password"
        /\ out.arg[1].text # None /\ out.arg[1].text # Some(<<>>)) =>
        LET t == out.arg[1].text[1]
            span == out.result[1]
            body == SubSeq(span, 2, Len(span) - 1)
        IN  /\ Len(span) = Len(t) + CountIn(t, Len(t), {"\\", Backtick}) + 2
            /\ span[1] = Backtick /\ span[Len(span)] = Backtick
            /\ \A k \in 1..Len(body) :
                  body[k] = Backtick => BackslashesBefore(body, k) % 2 = 1
            /\ Unescape(body) = t

\* a backslash followed by a backtick: three backslashes stand before the
\* backtick of the span
C24_Witness ==
    /\ out.kind = "rendered" /\ out.arg[1].fn = "safe_monospace_password"
    /\ out.arg[1].text = Some(<<"a", "\\", Backtick>>)
    /\ out.result = Some(<<Backtick, "a", "\\", "\\", "\\", Backtick, Backtick>>)

\* C25: escape_markdown_v2 puts one backslash before each reserved character
\* and leaves the other characters and the order as they are, so that taking
\* the added backslashes away gives the text; of a missing value it is "".
C25_EscapePrefixesReserved ==
    (out.kind = "rendered" /\ out.arg[1].fn = "escape_markdown_v2") =>
        IF out.arg[1].text = None THEN out.result = Some(<<>>)
        ELSE LET t == out.arg[1].text[1]
                 r == out.result[1]
                 at(i) == i + CountIn(t, i, Reserved)
             IN  /\ Len(r) = at(Len(t))
                 /\ \A i \in 1..Len(t) :
                       /\ r[at(i)] = t[i]
                       /\ t[i] \in Reserved => r[at(i) - 1] = "\\"
                       /\ t[i] \notin Reserved => at(i) = at(i - 1) + 1
                 /\ Unescape(r) = t

\* a text of a backslash, a letter and a dot
C25_Witness ==
    /\ out.kind = "rendered" /\ out.arg[1].fn = "escape_markdown_v2"
    /\ out.arg[1].text = Some(<<"\\", "a", ".">>)
    /\ out.result = Some(<<"\\", "\\", "a", "\\", ".">>)

-----------------------------------------------------------------------------
(* GenerationSettings, property by property *)

\* the settings an action leaves when it finds the defaults
AppliedToDefaults(e) ==
    IF e.kind = "toggle" /\ e.arg[1] \in ToggleTypes
    THEN [DefaultSettings EXCEPT ![e.arg[1]] = FALSE]
    ELSE IF e.kind = "length" THEN [DefaultSettings EXCEPT !.length = e.arg[1]]
    ELSE DefaultSettings

\* C26: an action on the settings of an owner who has none yet (opening the
\* options, a toggle, a length selection, a custom generation) is not answered
\* with an error and leaves the settings that the action makes of length 12
\* and four flags set; a custom generation then made has 12 characters.
C26_SettingsCreatedOnFirstUse ==
    [][ \A o \in Owners :
          (/\ out'.owner = o
           /\ out'.kind \in {"detailed", "toggle", "length", "generate_custom"}
           /\ user_settings[o] = None) =>
              /\ out'.notice # "error"
              /\ user_settings'[o] = Some(AppliedToDefaults(out'))
              /\ out'.kind = "generate_custom" =>
                    user_data'[o].last_generated_password = Some(<< <<"p", 12>> >>) ]_vars

-----------------------------------------------------------------------------
(* Owner partitioning (spec 5) *)

\* what the bot holds of owner A: session, settings, in-memory history, and
\* the rows of the two tables
OwnerState(A) ==
    [session |-> user_data[A], settings |-> user_settings[A],
     mirror |-> user_password_history[A],
     vault |-> OwnerRows(password_manager, A),
     history |-> OwnerRows(password_history, A)]

\* C27: an update of one owner, wherever it falls among the updates of
\* another owner A, changes nothing of what the bot holds of A: session,
\* settings, in-memory history, vault rows and history rows.
C27_OwnersDoNotInterfere ==
    [][ \A A \in Owners : out'.owner # A => OwnerState(A)' = OwnerState(A) ]_vars

\* owner 2 clears the history while owner 1 has a session open, settings, a
\* vault row and a history row
C27_Witness ==
    /\ out.owner = 2 /\ out.kind = "clear_password_history" /\ out.notice = "cleared"
    /\ user_data[1].conv_state # None
    /\ user_settings[1] # None
    /\ OwnerRows(password_manager, 1) # <<>>
    /\ OwnerRows(password_history, 1) # <<>>
    /\ user_password_history[1] # <<>>

-----------------------------------------------------------------------------
(* PersistenceError (spec 5, 7) *)

\* C28: a handler whose persistence call failed shows a failure notice: with
\* storage enabled, the password of a generation is shown only when its row
\* was recorded, "cleared" only when the rows of the owner are gone, "not
\* found" only when the owner has no row of that id, "saved" only when the
\* row was added and "deleted" only when it was removed.
C28_FailuresAreReported ==
    [][ \A A \in Owners :
          (out'.owner = A /\ ENABLE_STORAGE) =>
             /\ (out'.kind = "record" /\ out'.notice = "password") =>
                   Len(OwnerRows(password_history', A)) =
                      Len(OwnerRows(password_history, A)) + 1
             /\ (out'.kind = "clear_password_history" /\ out'.notice = "cleared") =>
                   OwnerRows(password_history', A) = <<>>
             /\ (out'.kind = "delete_password_command" /\ out'.notice = "not_found") =>
                   WithId(OwnerRows(password_manager, A), out'.arg[1]) = <<>>
             /\ (out'.kind = "delete_password_command" /\ out'.notice = "deleted") =>
                   WithId(password_manager', out'.arg[1]) = <<>>
             /\ (out'.kind = "create" /\ out'.notice = "saved") =>
                   Len(OwnerRows(password_manager', A)) =
                      Len(OwnerRows(password_manager, A)) + 1 ]_vars

-----------------------------------------------------------------------------
(* The length bounds of the four prompts (spec 4.5) *)

\* the stripped length L is within the bound of the state
WithinBound(state, L) ==
    \/ state = ASK_SERVICE /\ 1 <= L /\ L <= 100
    \/ state = ASK_USERNAME /\ L <= 200
    \/ state = ASK_PASSWORD /\ 1 <= L /\ L <= 500
    \/ state = ASK_NOTES /\ L <= 1000

\* C29: a text sent in a conversation is accepted (its stripped value stored,
\* the state advanced; in AskNotes: the row created with it as the notes) if
\* and only if its stripped length is within the bound of the current state:
\* 1..100 for the service, 0..200 for the username, 1..500 for the password,
\* 0..1000 for the notes.
C29_AcceptedIffWithinBound ==
    [][ \A t \in BoundTexts :
          LET o == out'.owner
              text == strip(t)
              state == DispatchState(user_data[o])
              accepted ==
                  \/ /\ state = ASK_SERVICE
                     /\ user_data'[o].service_name = Some(text)
                     /\ user_data'[o].conv_state = Some(ASK_USERNAME)
                  \/ /\ state = ASK_USERNAME
                     /\ user_data'[o].username = Some(text)
                     /\ user_data'[o].conv_state \in {Some(ASK_PASSWORD), Some(ASK_NOTES)}
                  \/ /\ state = ASK_PASSWORD
                     /\ user_data'[o].password_to_save = Some(text)
                     /\ user_data'[o].conv_state = Some(ASK_NOTES)
                  \/ /\ state = ASK_NOTES
                     /\ Len(password_manager') = Len(password_manager) + 1
                     /\ password_manager'[Len(password_manager')].notes = text
          IN  ( /\ out'.kind = "text"
                /\ ENABLE_STORAGE /\ InConversation(user_data[o])
                /\ handle_text_messages(o, t, TRUE, TRUE) )
              => (accepted <=> WithinBound(state, TLen(text))) ]_vars

-----------------------------------------------------------------------------
(* Saving a generated password (spec 4.5, entering AskService) *)

\* C30: a row created in a capture started by "save this generated password"
\* holds the password that was the most recently generated one when that
\* action was taken, whatever was generated afterwards; with no remembered
\* generated password the action starts no session and changes nothing.
C30_SavedPasswordIsTheOneAtTheAction ==
    [][ LET o == out'.owner IN
        /\ ( /\ out'.kind \in {"text", "skip_notes"}
             /\ user_data[o].is_saving_generated = Some(TRUE)
             /\ Len(password_manager') > Len(password_manager) )
           => /\ capture[o].password # None
              /\ password_manager'[Len(password_manager')].password = capture[o].password[1]
        /\ ( /\ out'.kind = "save_to_manager"
             /\ ~NonEmpty(user_data[o].last_generated_password) )
           => /\ UNCHANGED <<user_data, dbVars, memVars>>
              /\ out'.notice # "ask_service" ]_vars

\* a row was created with the password remembered at the action although
\* another one had been generated since (the session is still there: the
\* confirmation could not be sent)
C30_Witness ==
    /\ out.kind \in {"text", "skip_notes"} /\ out.notice = "saved"
    /\ Len(password_manager) = 1
    /\ capture[1].rows = 1
    /\ user_data[1].is_saving_generated = Some(TRUE)
    /\ user_data[1].password_to_save = Some(password_manager[1].password)
    /\ NonEmpty(user_data[1].last_generated_password)
    /\ user_data[1].last_generated_password # user_data[1].password_to_save

-----------------------------------------------------------------------------
(* Storage disabled (spec 4.1, disabled-storage mode) *)

\* C31: with storage disabled no event makes a handler call
\* save_password_to_manager or write a row: a start action answers with the
\* storage-disabled notice and opens no session, a text message is ignored,
\* and the session never holds a service name or a password to save.
C31_DisabledStorageNeverWrites ==
    /\ [](~ENABLE_STORAGE =>
            /\ password_manager = <<>> /\ password_history = <<>>
            /\ out.creates = 0
            /\ \A o \in Owners :
                  /\ user_data[o].service_name = None
                  /\ user_data[o].password_to_save = None
                  /\ ~InConversation(user_data[o]))
    /\ [][ ~ENABLE_STORAGE =>
             /\ UNCHANGED <<dbVars, user_password_history>>
             /\ out'.kind \in {"save_to_manager", "add_password_start"} =>
                   (out'.notice = "storage_disabled" /\ UNCHANGED user_data)
             /\ out'.kind = "text" =>
                   (out'.notice = "none" /\ UNCHANGED user_data) ]_vars

\* with storage disabled a password was generated, a start action was
\* answered with the notice, and a skip button was pressed
C31_Witness ==
    /\ ~ENABLE_STORAGE
    /\ out.kind \in {"save_to_manager", "add_password_start"}
    /\ out.notice = "storage_disabled"
    /\ NonEmpty(user_data[1].last_generated_password)
    /\ user_data[1].username = Some(<<>>)

-----------------------------------------------------------------------------
(* The in-memory history (spec 3, HistoryEntry) *)

PasswordAndType(list, type(_)) ==
    [i \in 1..Len(list) |-> <<list[i].password, type(list[i])>>]

\* C33: with storage enabled the in-memory history of an owner is the first
\* min(20, n) entries of the owner's persisted history, newest first, entry by
\* entry the same password and generation type.
C33_MirrorEqualsPersisted ==
    ENABLE_STORAGE =>
        \A o \in Owners :
            PasswordAndType(user_password_history[o], LAMBDA e : e.type)
              = PasswordAndType(get_user_passwords_from_db(o, HISTORY_KEEP, 0, TRUE),
                                LAMBDA r : r.generation_type)

\* the table password_history got exactly one row more: of owner o, with this
\* password and this generation type
AppendedOne(o, password, generation_type) ==
    /\ Len(password_history') = Len(password_history) + 1
    /\ SubSeq(password_history', 1, Len(password_history)) = password_history
    /\ LET r == password_history'[Len(password_history')]
       IN  /\ r.user_id = o
           /\ r.password = password
           /\ r.generation_type = generation_type

-----------------------------------------------------------------------------
(* The two tables (spec 4.1) *)

\* C35: recording a generation and clearing the history never add, change or
\* remove a row of password_manager; a save to the manager and a delete never
\* add, change or remove a row of password_history.
C35_StoresAreIndependent ==
    [][ /\ out'.kind \in {"record", "clear_password_history"} =>
             UNCHANGED <<password_manager, manager_seq>>
        /\ out'.kind \in {"create", "delete_password_command"} =>
             UNCHANGED <<password_history, history_seq>> ]_vars

\* the vault row of user 1 was deleted with a history row of that user in
\* place
C35_Witness ==
    /\ out.kind = "delete_password_command" /\ out.notice = "deleted" /\ out.owner = 1
    /\ OwnerRows(password_manager, 1) = <<>>
    /\ OwnerRows(password_history, 1) # <<>>

\* C36: the ids of password_manager are unique over all owners and never
\* given twice: a new row gets an id above every id given before, also above
\* the ids of deleted rows, and a /delete_<id> removes no row but the one of
\* that id.
C36_VaultIdsNeverReused ==
    /\ [](\A i, j \in 1..Len(password_manager) :
             /\ i # j => password_manager[i].id # password_manager[j].id
             /\ password_manager[i].id <= manager_seq)
    /\ [][ /\ manager_seq' >= manager_seq
           /\ \A j \in 1..Len(password_manager') :
                 \/ \E i \in 1..Len(password_manager) :
                       password_manager[i] = password_manager'[j]
                 \/ password_manager'[j].id > manager_seq
           /\ out'.kind = "delete_password_command" =>
                 \A i \in 1..Len(password_manager) :
                    \/ \E j \in 1..Len(password_manager') :
                          password_manager'[j] = password_manager[i]
                    \/ /\ password_manager[i].id = out'.arg[1]
                       /\ password_manager[i].user_id = out'.owner ]_vars

\* the first row was deleted and the row saved after that has the id 2
C36_Witness ==
    /\ out.kind = "create" /\ out.notice = "saved"
    /\ Len(password_manager) = 1
    /\ password_manager[1].id = 2

-----------------------------------------------------------------------------
(* The pages of a list (spec 4.2) *)

RECURSIVE Concat(_, _)
\* pages 1..n, one after the other
Concat(page(_), n) == IF n = 0 THEN <<>> ELSE Concat(page, n - 1) \o page(n)

\* a page of per_page entries at most, and the pages 1..total_pages, put
\* together, are the list
PagesCoverList(page(_), list, per_page) ==
    IF list = <<>> THEN page(1) = None
    ELSE LET total_pages == page(1)[1].total_pages
         IN  /\ \A p \in 1..total_pages :
                   /\ page(p)[1].page = p
                   /\ Len(page(p)[1].passwords) \in 1..per_page
             /\ Concat(LAMBDA p : page(p)[1].passwords, total_pages) = list

-----------------------------------------------------------------------------
(* The options of the custom generation (spec 3, GenerationSettings) *)

SettingKeys == {"length", "lowercase", "uppercase", "digits", "symbols"}

\* C38: a toggle of one of the four classes flips the flag of that class and
\* leaves the three other flags and the length as they were (so a second
\* toggle of the class restores the settings); a length selection changes
\* the length and nothing else; a toggle that names no class changes no flag
\* and no length.  Settings not yet created count as the defaults.
C38_ToggleAndLengthFrames ==
    [][ \A o \in Owners :
          LET pre == WithDefaults(user_settings[o])[1]
              post == WithDefaults(user_settings'[o])[1]
              arg == out'.arg[1]
          IN  /\ out'.owner # o => user_settings'[o] = user_settings[o]
              /\ (out'.owner = o /\ out'.kind = "toggle") =>
                    IF arg \in {"lowercase", "uppercase", "digits", "symbols"}
                    THEN /\ post[arg] = ~pre[arg]
                         /\ \A k \in SettingKeys \ {arg} : post[k] = pre[k]
                         /\ [post EXCEPT ![arg] = ~post[arg]] = pre
                    ELSE post = pre
              /\ (out'.owner = o /\ out'.kind = "length") =>
                    /\ \A k \in SettingKeys \ {"length"} : post[k] = pre[k]
                    /\ user_settings[o] # None => post.length = arg
                    /\ user_settings[o] = None => user_settings'[o] = None ]_vars

\* a class was switched off after a length other than the default was chosen
C38_Witness ==
    /\ out.kind = "toggle" /\ out.arg = Some("symbols")
    /\ user_settings[1] # None
    /\ user_settings[1][1] = [DefaultSettings EXCEPT !.length = 16, !.symbols = FALSE]

-----------------------------------------------------------------------------
(* Texts outside a capture (spec 4.5) *)

\* C39: a text message of an owner who has no capture in progress changes
\* nothing: no key of the owner's session is written and the session stays
\* inactive, no row of password_manager or password_history is added, changed
\* or removed, and nothing is answered.
C39_TextOutsideCaptureChangesNothing ==
    [][ \A o \in Owners :
          (out'.owner = o /\ out'.kind = "text" /\ ~InConversation(user_data[o])) =>
              /\ UNCHANGED <<user_data, dbVars, memVars>>
              /\ ~InConversation(user_data'[o])
              /\ user_data'[o].service_name = None
              /\ user_data'[o].password_to_save = None
              /\ out'.notice = "none" /\ out'.creates = 0 ]_vars

\* with storage enabled a text arrived after the capture had ended with a
\* saved row
C39_Witness ==
    /\ ENABLE_STORAGE
    /\ out.kind = "text" /\ out.notice = "none"
    /\ ~InConversation(user_data[1])
    /\ Len(password_manager) = 1

-----------------------------------------------------------------------------
(* A capture from its start to its row (spec 4.5) *)

\* every value of the capture in progress has been supplied since its start:
\* the service name, the username (or its skip) and the password (typed, or
\* the generated one taken over at the start)
AllSupplied(c) == c.service_name # None /\ c.username # None /\ c.password # None

\* C40: when no call fails, a capture whose values have all been supplied
\* since its start (service name, username or skip, and for an "add password"
\* capture the password) ends at the notes text or the skip of the notes with
\* exactly one row created and the session cleared; and no capture creates a
\* row before all of them have been supplied.
C40_CaptureEndsAfterAllValues ==
    [][ \A o \in Owners :
          out'.owner = o =>
            LET c == capture[o]
                ud == user_data[o]
                notes == \/ out'.kind = "skip_notes"
                         \/ /\ out'.kind = "text"
                            /\ \E t \in ConvTexts :
                                  /\ ValidNotes(strip(t))
                                  /\ handle_text_messages(o, t, TRUE, TRUE)
            IN  /\ ( /\ ENABLE_STORAGE /\ InConversation(ud)
                     /\ ud.conv_state = Some(ASK_NOTES)
                     /\ AllSupplied(c) /\ notes )
                   => /\ Len(password_manager') = Len(password_manager) + 1
                      /\ user_data'[o] = EmptyUserData
                /\ Len(password_manager') > Len(password_manager) => AllSupplied(c)
      ]_vars

====
